---- MODULE Spec2Model ----
(***************************************************************************)
(* Model of the mcp-proxy-go gateway: the per-session request/response     *)
(* correlator (internal/httpserver session), its event fan-out, and the    *)
(* HTTP session registry.                                                  *)
(*                                                                         *)
(* Every goroutine of the program is a process of the model; every access  *)
(* to shared state (sync.Map, channel, mutex-protected set, event store)   *)
(* is one atomic step, local computation is folded into the next shared    *)
(* access.                                                                 *)
(***************************************************************************)
EXTENDS Naturals, Sequences, FiniteSets, TLC

----------------------------------------------------------------------------
(* Bounds of the model. *)

\* Number of concurrent session.request calls (HTTP POST handlers).
NumCalls == 2
\* Number of messages the transport hands to session.handleMessage.
MaxInbound == 2

\* Number of subscribers of the session's fan-out.
NumSubs == 2
\* Capacity of a subscriber's channel (the session's own is made with 128;
\* the subscriber chooses it).
SubCap == 1
\* Number of heartbeat ticks and of transport errors.
MaxBeats == 1
MaxErrors == 1
\* Number of keepalive comments an SSE response writes.
MaxKeepalive == 1

\* Events an event store takes, and readings the clock may advance by.
MaxEvents == 3
MaxClock == 1

\* Capacity of the one-shot delivery channel of a pending entry.
ChanCap == 1

Calls == 1..NumCalls

Subs == 1..NumSubs

\* "No channel": the result of a sync.Map Load that misses.
NoChan == 0

\* Absence of the "id" key in a JSON envelope.
NoId == "none"

\* Raw JSON tokens used as ids: the number 1 and the string "1".
RawIds == {"1", "\"1\""}

\* A JSON payload, reduced to what the session reads from it: whether it
\* unmarshals into an object, the raw token of its "id" key, its method.
BodyOf(ok, id, m, v) == [ok |-> ok, id |-> id, method |-> m, jsonrpc |-> v]

\* A body of JSON-RPC version 2.0.
Body(ok, id, m) == BodyOf(ok, id, m, "2.0")

\* Payloads a caller may hand to session.request.
ReqPayloads ==
    {Body(TRUE, i, "call") : i \in RawIds \cup {NoId}} \cup {Body(FALSE, NoId, "")}

\* Messages the child process may write: garbage that is no JSON object,
\* notifications, and responses carrying any id.
InboundBodies ==
    {Body(TRUE, i, "") : i \in RawIds \cup {NoId}} \cup {Body(FALSE, NoId, "")}

\* Bodies an HTTP client may POST: the above, an initialize request
\* (method "initialize", jsonrpc "2.0") and one of another version.
HttpBodies ==
    ReqPayloads \cup {Body(TRUE, "1", "initialize"),
                      BodyOf(TRUE, "1", "initialize", "1.0")}

\* Values of the mcp-session-id request header: absent, the id of the
\* session the model follows, an id no session ever had.
NoSid == ""
TheSid == "S"
OtherSid == "X"
Sids == {NoSid, TheSid, OtherSid}

\* The process waiter goroutine of the stdio transport, as a closer.
Waiter == 0

\* The value session.request returns: (body, err).
NilBody == Body(FALSE, NoId, "nil")
Result(kind, body) == [kind |-> kind, body |-> body]
NoResult == Result("pending", NilBody)

\* The payload of an event is a copy of the bytes of one message; it is named
\* here by where the bytes came from: the n-th inbound message ("in"), the
\* n-th heartbeat ("hb") or the n-th transport error ("err").
Payload(kind, n) == [kind |-> kind, n |-> n]

\* An event handed to broadcast: ID is 0 for the empty string, else the
\* unique id the store generated.
Event(id, p) == [id |-> id, payload |-> p]
NoEvent == Event(0, Payload("none", 0))

----------------------------------------------------------------------------
VARIABLES
    \* session.pending: raw id -> channel (a channel is named by the call
    \* that made it), NoChan when the key is absent
    pending,
    \* the buffer of each call's channel
    chan,
    \* position of each request call and what it was given
    pc, payload, outcome,
    \* position of the transport's reader inside session.handleMessage
    hpc, hmsg, hch, hev,
    \* number of messages handed to handleMessage so far
    ndelivered,
    \* whether the message being handled arrived after a cancelled request
    \* with its id had returned
    hlate,
    \* number of times each call's payload was written to the transport
    nsent,
    \* session.store (nil or an event log), and the log's events in order
    hasStore, stored,
    \* events passed to session.broadcast so far, in order
    bcasts,
    \* session.subs: the subscribed channels (a channel is named by its
    \* subscriber), and each channel's buffer
    subs, subch,
    \* each subscriber's position: "new", "on" (subscribe returned), "off"
    \* (its unsubscribe callback returned)
    subst,
    \* per subscriber: the id of the last stored event put into its channel,
    \* and whether an event was ever dropped for it
    lastSent, dropped,
    \* position of the heartbeat task (session.run) and the event it holds
    hbpc, hbev,
    \* heartbeat ticks and transport errors so far
    nbeats, nerrs,
    \* Options.Stateless
    stateless,
    \* Server.sessions: the registered session ids
    sessions,
    \* the session object the model follows: "none" until newSession, then "live"
    sess,
    \* its transport: "none", "new", "started", "closing" (inside the
    \* close-once guard), "closed"; and who is inside the guard
    tstate, tcloser,
    \* session.ctx cancelled; session.closeOnce used; runs of the session's
    \* on-close hook (finalize) and of the OnConnect hook
    sctxDone, closeOnce, nfinal, nconnect,
    \* per HTTP handler: the request's method and mcp-session-id header, the
    \* status written (0: none yet), whether the response carries an
    \* mcp-session-id header
    hkind, hsid, status, respSid,
    \* the handler that ran createSession
    creator,
    \* per SSE handler: the lines written to the response, how many inbound
    \* messages the session had seen when the response was opened, and
    \* whether the request's mcp-session-id was registered at that moment
    sseOut, sseSince, sseKnown,
    \* transports made by handleSSE
    norphan,
    \* times the transport's OnClose observer has fired
    nonclose,
    \* eventstore.Memory: the events in the order they were stored (the map
    \* itself has no order), and the clock that time.Now reads
    mevents, mclock,
    \* one caller of ReplayAfter: its position, the id it asked for, the
    \* sorted streamEvents, the loop index, found, the events handed to the
    \* visitor so far, the value returned
    rpc, rid, rorder, ri, rfound, rvisited, rret,
    \* Bridge.leftMap and Bridge.rightMap (proxy id number -> original raw
    \* id), Bridge.leftSeq and Bridge.rightSeq, both indexed by side
    idMap, seqs,
    \* per transport: the messages handed to its Send, in order
    sent,
    \* per direction: the original raw id of the request that was given
    \* proxy id number n (kept after the map entry is deleted)
    assigned,
    \* calls of Bridge.forward and of the OnError hooks so far, and the last
    \* event a transport handed to the bridge
    nfwd, nberr, bin,
    \* the implementation of each of the bridge's transports
    kinds,
    \* Bridge.startedOnce and, per stdio client, closedOnce ("fresh",
    \* "running", "done"; for a mockTransport "done" is its closed flag) with
    \* the goroutine that runs it
    startedOnce, closedOnce, onceHolder,
    \* per transport: "new", "started", "failed" (Start returned an error),
    \* "exited" (the child is gone); calls of its Start; runs of its OnClose
    \* hook
    trun, nstart, onCloseFired,
    \* per goroutine: the Close calls it is inside, outermost first
    stack,
    \* where the caller of the bridge is; what the Start call that ran the
    \* once body returned, what the last Start call returned; calls so far
    bpc, startRet, lastRet, nStartCalls, nCloseCalls,
    \* Options.APIKey, and per HTTP handler the X-API-Key header of its
    \* request
    apiKey, hkey,
    \* a stdio Client: c.cmd (the Start call that made it, NoCmd for nil);
    \* per Start call its child ("none", "alive", "dead"); the waiter
    \* goroutines that are about to call close; closedOnce used; what the
    \* Start calls returned, in order; where the running Start call is;
    \* Close calls so far
    ccmd, child, wpend, cclosed, cstarts, cspc, ncloses,
    \* a jsonfilter.Reader: the bytes its source was created with and the
    \* ones the source still holds; Reader.buffer and Reader.pending; the
    \* bytes its Read calls returned so far; whether Read returned io.EOF;
    \* whether the source ever returned less than it held
    finput, fsource, fbuffer, fpending, fout, feof, fsplit,
    \* Client.readStdout over the filter: the empty reads bufio's fill has
    \* seen in a row; where the loop is ("reading", "eof", "error"); the
    \* JSON lines the child has written to its stdout; whether the child has
    \* closed its stdout
    rdempty, rdstate, cwrote, cdone,
    \* an mcp.Message m: the bytes it was made of; the memory cells and the
    \* cell each slice points into, with the number of cells in use; the
    \* bytes the last Bytes call returned, as returned; the results of
    \* json.Marshal(m) and of json.Unmarshal; Bytes calls and writes so far
    minput, heap, cellOf, ncell, mgot, marshaled, unmarshaled, nbytes, nmut

sessVars == <<pending, chan, pc, payload, outcome, hpc, hmsg, hch, hev,
              ndelivered, hlate, nsent, hasStore, stored, bcasts>>

fanVars == <<subs, subch, subst, lastSent, dropped, hbpc, hbev, nbeats, nerrs>>

srvVars == <<stateless, sessions, sess, tstate, tcloser, sctxDone, closeOnce,
             nfinal, nconnect, hkind, hsid, status, respSid, creator,
             sseOut, sseSince, sseKnown, norphan, nonclose>>

\* Everything outside the session and its fan-out.
memVars == <<mevents, mclock, rpc, rid, rorder, ri, rfound, rvisited, rret>>

\* The Bridge of internal/proxy: its id maps, counters and what it sent.
brVars == <<idMap, seqs, sent, assigned, nfwd, nberr, bin>>

\* Everything outside the gateway and its event store.
\* The bridge's transports and the goroutines starting and closing them.
lifeVars == <<kinds, startedOnce, closedOnce, onceHolder, trun, nstart,
              onCloseFired, stack, bpc, startRet, lastRet, nStartCalls,
              nCloseCalls>>

\* The server's API key and the keys requests present.
authVars == <<apiKey, hkey>>

\* A stdio client on its own.
cliVars == <<ccmd, child, wpend, cclosed, cstarts, cspc, ncloses>>

\* A jsonfilter.Reader and its source.
filVars == <<finput, fsource, fbuffer, fpending, fout, feof, fsplit,
             rdempty, rdstate, cwrote, cdone>>

\* An mcp.Message and the slices around it.
msgVars == <<minput, heap, cellOf, ncell, mgot, marshaled, unmarshaled, nbytes, nmut>>

beyondStore == <<brVars, lifeVars, authVars, cliVars, filVars, msgVars>>

\* Everything but the Message.
beyondMessage == <<sessVars, fanVars, srvVars, memVars, brVars, lifeVars, authVars,
                   cliVars, filVars>>

\* Everything but the filter.
beyondFilter == <<sessVars, fanVars, srvVars, memVars, brVars, lifeVars, authVars, cliVars, msgVars>>

\* Everything but the stdio client.
beyondClient == <<sessVars, fanVars, srvVars, memVars, brVars, lifeVars, authVars, filVars, msgVars>>

\* The gateway: session, fan-out, server and event store.
gateway == <<sessVars, fanVars, srvVars, memVars>>

\* Everything but the bridge.
beyondBridge == <<gateway, lifeVars, authVars, cliVars, filVars, msgVars>>

\* Everything but the bridge's transports.
beyondLife == <<gateway, brVars, authVars, cliVars, filVars, msgVars>>

beyondSession == <<srvVars, memVars, beyondStore>>

vars == <<sessVars, fanVars, beyondSession>>

----------------------------------------------------------------------------
(* sync.Map operations on session.pending *)

\* A key made of the value of the id: the string "1" becomes the number 1.
KeyByValue(idRaw) == IF idRaw = "\"1\"" THEN "1" ELSE idRaw

\* string(idRaw): the key of the pending map is the raw token, byte for byte.
KeyOf(idRaw) == idRaw

\* A registration that has not happened by the time Send runs.
PendingStoreLate(p, key, ch) == p

PendingStore(p, key, ch) == [p EXCEPT ![key] = ch]

\* A lookup that ignores the key and returns whatever entry is there.
PendingLoadAnyKey(p, key) ==
    IF \E k \in RawIds : p[k] # NoChan
      THEN p[CHOOSE k \in RawIds : p[k] # NoChan]
      ELSE NoChan

PendingLoad(p, key) == p[key]

\* A delete that leaves the entry in place.
PendingDeleteForgotten(p, key) == p

PendingDelete(p, key) == [p EXCEPT ![key] = NoChan]

\* json.Unmarshal into map[string]json.RawMessage followed by envelope["id"]
HasID(b) == b.ok /\ b.id # NoId

\* Server.handleStream: the HTTP status written for what request returned.
HandleStreamStatus(r) ==
    IF r.kind \in {"invalid", "senderr", "cancelled"} THEN 500
    ELSE IF r.kind = "response" THEN 200
    ELSE 204

----------------------------------------------------------------------------
(* session.request *)

Active(c) == pc[c] \in {"send", "senderr", "wait", "delivered", "cancelled"}

\* Unmarshal the payload; register the delivery channel under the raw id.
ReqBegin(c, p) ==
    /\ pc[c] = "idle"
    \* callers that use the session directly are numbered in calling order
    /\ \A d \in Calls : (d < c /\ hkind[d] = "none") => pc[d] # "idle"
    \* an HTTP handler passes the body it read
    /\ payload[c] \in {NilBody, p}
    /\ payload' = [payload EXCEPT ![c] = p]
    /\ IF ~p.ok
         THEN /\ pc' = [pc EXCEPT ![c] = "done"]
              /\ outcome' = [outcome EXCEPT ![c] = Result("invalid", NilBody)]
              /\ UNCHANGED <<pending, chan>>
         ELSE /\ pc' = [pc EXCEPT ![c] = "send"]
              /\ IF HasID(p)
                   THEN /\ chan' = [chan EXCEPT ![c] = <<>>]
                        /\ pending' = PendingStore(pending, KeyOf(p.id), c)
                   ELSE UNCHANGED <<pending, chan>>
              /\ UNCHANGED outcome
    /\ UNCHANGED <<hpc, hmsg, hch, hev, ndelivered, hlate, nsent,
                   hasStore, stored, bcasts>>
    /\ UNCHANGED <<fanVars, beyondSession>>

\* A Send step that waits for a response whether or not the payload has an id.
ReqSendAlwaysWaits(c) ==
    /\ pc[c] = "send"
    /\ nsent' = [nsent EXCEPT ![c] = @ + 1]
    /\ pc' = [pc EXCEPT ![c] = "wait"]
    /\ UNCHANGED <<pending, chan, payload, outcome, hpc, hmsg, hch, hev,
                   ndelivered, hlate, hasStore, stored, bcasts>>
    /\ UNCHANGED <<fanVars, beyondSession>>

\* transport.Send: succeeds and writes the payload, or fails.
ReqSend(c) ==
    /\ pc[c] = "send"
    /\ \E ok \in BOOLEAN :
         IF ok
           THEN /\ tstate = "started"
                /\ nsent' = [nsent EXCEPT ![c] = @ + 1]
                /\ IF HasID(payload[c])
                     THEN /\ pc' = [pc EXCEPT ![c] = "wait"]
                          /\ UNCHANGED outcome
                     ELSE /\ pc' = [pc EXCEPT ![c] = "done"]
                          /\ outcome' = [outcome EXCEPT ![c] = Result("none", NilBody)]
           ELSE /\ UNCHANGED nsent
                /\ IF HasID(payload[c])
                     THEN /\ pc' = [pc EXCEPT ![c] = "senderr"]
                          /\ UNCHANGED outcome
                     ELSE /\ pc' = [pc EXCEPT ![c] = "done"]
                          /\ outcome' = [outcome EXCEPT ![c] = Result("senderr", NilBody)]
    /\ UNCHANGED <<pending, chan, payload, hpc, hmsg, hch, hev,
                   ndelivered, hlate, hasStore, stored, bcasts>>
    /\ UNCHANGED <<fanVars, beyondSession>>

\* Send failed: delete the pending entry and return the error.
ReqSendFailed(c) ==
    /\ pc[c] = "senderr"
    /\ pending' = PendingDelete(pending, KeyOf(payload[c].id))
    /\ pc' = [pc EXCEPT ![c] = "done"]
    /\ outcome' = [outcome EXCEPT ![c] = Result("senderr", NilBody)]
    /\ UNCHANGED <<chan, payload, hpc, hmsg, hch, hev, ndelivered,
                   hlate, nsent, hasStore, stored, bcasts>>
    /\ UNCHANGED <<fanVars, beyondSession>>

\* select: case msg := <-ch
ReqRecv(c) ==
    /\ pc[c] = "wait"
    /\ chan[c] # <<>>
    /\ outcome' = [outcome EXCEPT ![c] = Result("response", Head(chan[c]))]
    /\ chan' = [chan EXCEPT ![c] = Tail(chan[c])]
    /\ pc' = [pc EXCEPT ![c] = "delivered"]
    /\ UNCHANGED <<pending, payload, hpc, hmsg, hch, hev, ndelivered,
                   hlate, nsent, hasStore, stored, bcasts>>
    /\ UNCHANGED <<fanVars, beyondSession>>

\* select: case <-ctx.Done().  The caller's context may be cancelled at any
\* moment (client gone, deadline); request reads it nowhere but in this
\* select, so the cancellation is modelled at the moment the select sees it.
\* With a message ready as well, select takes either branch.
ReqCtxDone(c) ==
    /\ pc[c] = "wait"
    /\ outcome' = [outcome EXCEPT ![c] = Result("cancelled", NilBody)]
    /\ pc' = [pc EXCEPT ![c] = "cancelled"]
    /\ UNCHANGED <<pending, chan, payload, hpc, hmsg, hch, hev,
                   ndelivered, hlate, nsent, hasStore, stored, bcasts>>
    /\ UNCHANGED <<fanVars, beyondSession>>

\* s.pending.Delete(string(idRaw)) of either select branch, then return.
ReqSettle(c) ==
    /\ pc[c] \in {"delivered", "cancelled"}
    /\ pending' = PendingDelete(pending, KeyOf(payload[c].id))
    /\ pc' = [pc EXCEPT ![c] = "done"]
    /\ UNCHANGED <<chan, payload, outcome, hpc, hmsg, hch, hev,
                   ndelivered, hlate, nsent, hasStore, stored, bcasts>>
    /\ UNCHANGED <<fanVars, beyondSession>>

----------------------------------------------------------------------------
(* session.handleMessage, run by the transport's single reader *)

\* A cancelled request with this id has returned and no request with this
\* id is registered and unsettled.
LateFor(b) ==
    /\ HasID(b)
    /\ \E c \in Calls : /\ pc[c] = "done" /\ outcome[c].kind = "cancelled"
                        /\ payload[c].id = b.id
    /\ \A c \in Calls : Active(c) => payload[c].id # b.id

\* The transport's reader (Client.readStdout) hands over a message:
\* unmarshal, look the id up.  Closing the transport neither stops nor waits
\* for the reader: lines it already holds are handed over afterwards.
HandleBegin(b) ==
    /\ hpc = "idle"
    /\ tstate \in {"started", "closing", "closed"}
    /\ ndelivered < MaxInbound
    /\ ndelivered' = ndelivered + 1
    /\ hmsg' = b
    /\ hlate' = LateFor(b)
    /\ IF HasID(b) /\ PendingLoad(pending, KeyOf(b.id)) # NoChan
         THEN /\ hch' = PendingLoad(pending, KeyOf(b.id))
              /\ hpc' = "deliver"
         ELSE /\ hch' = NoChan
              /\ hpc' = "store"
    /\ UNCHANGED <<pending, chan, pc, payload, outcome, hev, nsent,
                   hasStore, stored, bcasts>>
    /\ UNCHANGED <<fanVars, beyondSession>>

\* ch <- msg : a channel send, which waits while the buffer is full.
HandleDeliver ==
    /\ hpc = "deliver"
    /\ Len(chan[hch]) < ChanCap
    /\ chan' = [chan EXCEPT ![hch] = Append(chan[hch], hmsg)]
    /\ hpc' = "store"
    /\ UNCHANGED <<pending, pc, payload, outcome, hmsg, hch, hev,
                   ndelivered, hlate, nsent, hasStore, stored, bcasts>>
    /\ UNCHANGED <<fanVars, beyondSession>>

\* A non-blocking send to every subscribed channel: a full channel drops the
\* event.  The whole loop runs under subsMu.
SendOrDrop(e) ==
    [s \in Subs |-> IF s \in subs /\ Len(subch[s]) < SubCap
                      THEN Append(subch[s], e)
                      ELSE subch[s]]

\* session.broadcast
Broadcast(e) ==
    /\ subch' = SendOrDrop(e)
    /\ bcasts' = Append(bcasts, e)
    /\ lastSent' = [s \in Subs |->
                      IF s \in subs /\ Len(subch[s]) < SubCap /\ e.id # 0
                        THEN e.id ELSE lastSent[s]]
    /\ dropped' = [s \in Subs |->
                      dropped[s] \/ (s \in subs /\ Len(subch[s]) >= SubCap)]

\* storeAndBroadcast, first half: s.store.Store when a store is configured.
HandleStore ==
    /\ hpc = "store"
    /\ IF hasStore
         THEN /\ stored' = Append(stored, Event(Len(stored) + 1, Payload("in", ndelivered)))
              /\ hev' = Event(Len(stored) + 1, Payload("in", ndelivered))
         ELSE /\ UNCHANGED stored
              /\ hev' = Event(0, Payload("in", ndelivered))
    /\ hpc' = "bcast"
    /\ UNCHANGED <<pending, chan, pc, payload, outcome, hmsg, hch,
                   ndelivered, hlate, nsent, hasStore, bcasts>>
    /\ UNCHANGED <<fanVars, beyondSession>>

\* storeAndBroadcast, second half: s.broadcast(event).
HandleBroadcast ==
    /\ hpc = "bcast"
    /\ Broadcast(hev)
    /\ hpc' = "idle"
    /\ hmsg' = NilBody /\ hch' = NoChan /\ hev' = NoEvent /\ hlate' = FALSE
    /\ UNCHANGED <<pending, chan, pc, payload, outcome,
                   ndelivered, nsent, hasStore, stored>>
    /\ UNCHANGED <<subs, subst, hbpc, hbev, nbeats, nerrs, beyondSession>>

----------------------------------------------------------------------------
(* session.subscribe and the subscribers *)

\* subscribe(ch): add the channel to s.subs under subsMu.
Subscribe(s) ==
    /\ subst[s] = "new"
    /\ \A t \in Subs : t < s => subst[t] # "new"
    /\ subs' = subs \cup {s}
    /\ subst' = [subst EXCEPT ![s] = "on"]
    /\ UNCHANGED <<subch, lastSent, dropped, hbpc, hbev, nbeats, nerrs>>
    /\ UNCHANGED <<sessVars, beyondSession>>

\* A closure that forgets to delete the channel from s.subs.
UnsubscribeKeepsChannel(s) ==
    /\ subst[s] = "on"
    /\ subst' = [subst EXCEPT ![s] = "off"]
    /\ UNCHANGED <<subs, subch, lastSent, dropped, hbpc, hbev, nbeats, nerrs>>
    /\ UNCHANGED <<sessVars, beyondSession>>

\* The closure subscribe returned: delete the channel under subsMu.
Unsubscribe(s) ==
    /\ subst[s] = "on"
    /\ subs' = subs \ {s}
    /\ subst' = [subst EXCEPT ![s] = "off"]
    /\ UNCHANGED <<subch, lastSent, dropped, hbpc, hbev, nbeats, nerrs>>
    /\ UNCHANGED <<sessVars, beyondSession>>

\* The subscriber takes one event out of its channel.
SubRecv(s) ==
    /\ subst[s] # "new"
    /\ subch[s] # <<>>
    /\ subch' = [subch EXCEPT ![s] = Tail(subch[s])]
    /\ UNCHANGED <<subs, subst, lastSent, dropped, hbpc, hbev, nbeats, nerrs>>
    /\ UNCHANGED <<sessVars, beyondSession>>

----------------------------------------------------------------------------
(* session.run: the heartbeat task; the transport's OnError hook *)

\* case <-ticker.C: a heartbeat is emitted only with a store.
HbTick ==
    /\ sess = "live"
    /\ hbpc = "idle"
    /\ nbeats < MaxBeats
    /\ nbeats' = nbeats + 1
    /\ hbpc' = IF hasStore THEN "store" ELSE "idle"
    /\ UNCHANGED <<subs, subch, subst, lastSent, dropped, hbev, nerrs>>
    /\ UNCHANGED <<sessVars, beyondSession>>

\* storeAndBroadcast(buildHeartbeat()), first half.
HbStore ==
    /\ hbpc = "store"
    /\ stored' = Append(stored, Event(Len(stored) + 1, Payload("hb", nbeats)))
    /\ hbev' = Event(Len(stored) + 1, Payload("hb", nbeats))
    /\ hbpc' = "bcast"
    /\ UNCHANGED <<pending, chan, pc, payload, outcome, hpc, hmsg, hch, hev,
                   ndelivered, hlate, nsent, hasStore, bcasts>>
    /\ UNCHANGED <<subs, subch, subst, lastSent, dropped, nbeats, nerrs>>
    /\ UNCHANGED beyondSession

\* storeAndBroadcast(buildHeartbeat()), second half.
HbBroadcast ==
    /\ hbpc = "bcast"
    /\ Broadcast(hbev)
    /\ hbpc' = "idle"
    /\ hbev' = NoEvent
    /\ UNCHANGED <<pending, chan, pc, payload, outcome, hpc, hmsg, hch, hev,
                   ndelivered, hlate, nsent, hasStore, stored>>
    /\ UNCHANGED <<subs, subst, nbeats, nerrs, beyondSession>>

\* case <-s.ctx.Done(): the goroutine returns.
HbExit ==
    /\ sess = "live"
    /\ hbpc = "idle"
    /\ sctxDone
    /\ hbpc' = "exited"
    /\ UNCHANGED <<subs, subch, subst, lastSent, dropped, hbev, nbeats, nerrs>>
    /\ UNCHANGED <<sessVars, beyondSession>>

\* transport.OnError hook: broadcast a proxy error notification with an
\* empty event id; nothing is stored.
TransportError ==
    /\ nerrs < MaxErrors
    /\ nerrs' = nerrs + 1
    /\ Broadcast(Event(0, Payload("err", nerrs + 1)))
    /\ UNCHANGED <<pending, chan, pc, payload, outcome, hpc, hmsg, hch, hev,
                   ndelivered, hlate, nsent, hasStore, stored>>
    /\ UNCHANGED <<subs, subst, hbpc, hbev, nbeats, beyondSession>>

----------------------------------------------------------------------------
(* The HTTP server: Server.handleStream, createSession, handleDelete,      *)
(* handleSSE, session.close and the stdio transport's close-once guard     *)

\* One line written to an SSE response: a data: line or a ": ..." comment.
SseLine(line, body) == [line |-> line, body |-> body]

\* An initialize check that does not look at the version.
IsInitializeAnyVersion(b) == b.ok /\ b.method = "initialize"

\* mcp.IsInitializeRequest: the body parses, its method is "initialize" and
\* its jsonrpc is "2.0".
IsInitializeRequest(b) == b.ok /\ b.method = "initialize" /\ b.jsonrpc = "2.0"

\* HTTP handlers arrive in the order of their numbers.
Arrives(c) ==
    /\ pc[c] = "http"
    /\ \A d \in Calls : d < c => pc[d] # "http"

\* Absence of the X-API-Key header, and of Options.APIKey.
NoKey == ""

\* Values of the X-API-Key header: none, the configured key, another one.
Headers == {NoKey, "k", "x"}

\* A check that lets every request through.
ValidateAlways(key) == TRUE

\* auth.Middleware.Validate: no key configured, or the header equals it.
Validate(key) == apiKey = NoKey \/ key = apiKey

\* Server.handle got past `if !s.auth.Validate(r)`.
Authorized(c) == Arrives(c) /\ Validate(hkey[c])

\* Server.handle, Validate fails: the UnauthorizedResponse is written and
\* the handler returns before any routing.
HttpUnauthorized(c, kind) ==
    /\ Arrives(c)
    /\ ~Validate(hkey[c])
    /\ hkind' = [hkind EXCEPT ![c] = kind]
    /\ status' = [status EXCEPT ![c] = 401]
    /\ pc' = [pc EXCEPT ![c] = "replied"]
    /\ UNCHANGED <<stateless, sessions, sess, tstate, tcloser, sctxDone,
                   closeOnce, nfinal, nconnect, hsid, respSid, creator, sseOut,
                   sseSince, sseKnown, norphan, nonclose>>
    /\ UNCHANGED <<pending, chan, payload, outcome, hpc, hmsg, hch, hev,
                   ndelivered, hlate, nsent, hasStore, stored, bcasts>>
    /\ UNCHANGED <<fanVars, memVars, beyondStore>>

\* An on-close hook without the once-guard.
RunCloseEveryTime ==
    /\ closeOnce' = TRUE
    /\ sessions' = IF stateless THEN sessions ELSE sessions \ {TheSid}
    /\ nfinal' = nfinal + 1

\* The session's own on-close hook inside closeOnce.Do: createSession's
\* finalize, run at most once.
RunCloseOnce ==
    /\ closeOnce' = TRUE
    /\ IF closeOnce
         THEN UNCHANGED <<sessions, nfinal>>
         ELSE /\ sessions' = IF stateless THEN sessions ELSE sessions \ {TheSid}
              /\ nfinal' = nfinal + 1

\* POST on the stream endpoint: route by the mcp-session-id header.
HttpPost(c, sid, b) ==
    /\ Authorized(c)
    /\ hkind' = [hkind EXCEPT ![c] = "post"]
    /\ hsid' = [hsid EXCEPT ![c] = sid]
    /\ payload' = [payload EXCEPT ![c] = b]
    /\ IF sid = NoSid
         THEN IF ~IsInitializeRequest(b) /\ ~stateless
                THEN /\ status' = [status EXCEPT ![c] = 400]
                     /\ pc' = [pc EXCEPT ![c] = "replied"]
                ELSE \* the model follows the first session created
                     /\ sess = "none"
                     /\ \A d \in Calls : pc[d] \notin {"create", "start", "register"}
                     /\ pc' = [pc EXCEPT ![c] = "create"]
                     /\ UNCHANGED status
         ELSE IF sid \in sessions
                THEN /\ pc' = [pc EXCEPT ![c] = "idle"]
                     /\ UNCHANGED status
                ELSE /\ status' = [status EXCEPT ![c] = 404]
                     /\ pc' = [pc EXCEPT ![c] = "replied"]
    /\ UNCHANGED <<pending, chan, outcome, hpc, hmsg, hch, hev, ndelivered,
                   hlate, nsent, hasStore, stored, bcasts>>
    /\ UNCHANGED <<stateless, sessions, sess, tstate, tcloser, sctxDone,
                   closeOnce, nfinal, nconnect, respSid, creator, sseOut,
                   sseSince, sseKnown, norphan, nonclose>>
    /\ UNCHANGED <<fanVars, memVars, beyondStore>>

\* createSession: CreateTransport, the event store, newSession.
CsNew(c) ==
    /\ pc[c] = "create"
    /\ \E ok \in BOOLEAN :
         IF ok
           THEN /\ sess' = "live"
                /\ tstate' = "new"
                /\ creator' = c
                /\ \E factory \in BOOLEAN : hasStore' = (factory /\ ~stateless)
                /\ pc' = [pc EXCEPT ![c] = "start"]
                /\ UNCHANGED status
           ELSE /\ status' = [status EXCEPT ![c] = 500]
                /\ pc' = [pc EXCEPT ![c] = "replied"]
                /\ UNCHANGED <<sess, tstate, creator, hasStore>>
    /\ UNCHANGED <<pending, chan, payload, outcome, hpc, hmsg, hch, hev,
                   ndelivered, hlate, nsent, stored, bcasts>>
    /\ UNCHANGED <<stateless, sessions, tcloser, sctxDone, closeOnce, nfinal,
                   nconnect, hkind, hsid, respSid, sseOut, sseSince, sseKnown, norphan, nonclose>>
    /\ UNCHANGED <<fanVars, memVars, beyondStore>>

\* createSession: sess.start, which spawns the child and its waiter.
CsStart(c) ==
    /\ pc[c] = "start"
    /\ \E ok \in BOOLEAN :
         IF ok
           THEN /\ tstate' = "started"
                /\ pc' = [pc EXCEPT ![c] = "register"]
                /\ UNCHANGED status
           ELSE /\ status' = [status EXCEPT ![c] = 500]
                /\ pc' = [pc EXCEPT ![c] = "replied"]
                /\ UNCHANGED tstate
    /\ UNCHANGED <<stateless, sessions, sess, tcloser, sctxDone, closeOnce,
                   nfinal, nconnect, hkind, hsid, respSid, creator, sseOut,
                   sseSince, sseKnown, norphan, nonclose>>
    /\ UNCHANGED <<pending, chan, payload, outcome, hpc, hmsg, hch, hev,
                   ndelivered, hlate, nsent, hasStore, stored, bcasts>>
    /\ UNCHANGED <<fanVars, memVars, beyondStore>>

\* A registration that does not look at Options.Stateless.
CsRegisterAlways(c) ==
    /\ pc[c] = "register"
    /\ sessions' = sessions \cup {TheSid}
    /\ nconnect' = nconnect + 1
    /\ respSid' = [respSid EXCEPT ![c] = TRUE]
    /\ pc' = [pc EXCEPT ![c] = "idle"]
    /\ UNCHANGED <<stateless, sess, tstate, tcloser, sctxDone, closeOnce,
                   nfinal, hkind, hsid, status, creator, sseOut, sseSince, sseKnown,
                   norphan, nonclose>>
    /\ UNCHANGED <<pending, chan, payload, outcome, hpc, hmsg, hch, hev,
                   ndelivered, hlate, nsent, hasStore, stored, bcasts>>
    /\ UNCHANGED <<fanVars, memVars, beyondStore>>

\* createSession: sessions.Store and OnConnect; handleStream then sets the
\* response header and calls sess.request.
CsRegister(c) ==
    /\ pc[c] = "register"
    /\ sessions' = IF stateless THEN sessions ELSE sessions \cup {TheSid}
    /\ nconnect' = nconnect + 1
    /\ respSid' = [respSid EXCEPT ![c] = ~stateless]
    /\ pc' = [pc EXCEPT ![c] = "idle"]
    /\ UNCHANGED <<stateless, sess, tstate, tcloser, sctxDone, closeOnce,
                   nfinal, hkind, hsid, status, creator, sseOut, sseSince, sseKnown,
                   norphan, nonclose>>
    /\ UNCHANGED <<pending, chan, payload, outcome, hpc, hmsg, hch, hev,
                   ndelivered, hlate, nsent, hasStore, stored, bcasts>>
    /\ UNCHANGED <<fanVars, memVars, beyondStore>>

\* handleStream after sess.request returned: write the response; in
\* stateless mode the per-request session is closed after a success.
HttpReply(c) ==
    /\ pc[c] = "done"
    /\ hkind[c] = "post"
    /\ status' = [status EXCEPT ![c] = HandleStreamStatus(outcome[c])]
    /\ pc' = [pc EXCEPT ![c] =
                IF stateless /\ creator = c /\ outcome[c].kind \in {"response", "none"}
                  THEN "close" ELSE "replied"]
    /\ UNCHANGED <<stateless, sessions, sess, tstate, tcloser, sctxDone,
                   closeOnce, nfinal, nconnect, hkind, hsid, respSid, creator,
                   sseOut, sseSince, sseKnown, norphan, nonclose>>
    /\ UNCHANGED <<pending, chan, payload, outcome, hpc, hmsg, hch, hev,
                   ndelivered, hlate, nsent, hasStore, stored, bcasts>>
    /\ UNCHANGED <<fanVars, memVars, beyondStore>>

\* DELETE on the stream endpoint.
HttpDelete(c, sid) ==
    /\ Authorized(c)
    /\ hkind' = [hkind EXCEPT ![c] = "delete"]
    /\ hsid' = [hsid EXCEPT ![c] = sid]
    /\ IF sid = NoSid
         THEN /\ status' = [status EXCEPT ![c] = 400]
              /\ pc' = [pc EXCEPT ![c] = "replied"]
         ELSE IF sid \in sessions
                THEN /\ pc' = [pc EXCEPT ![c] = "close"]
                     /\ UNCHANGED status
                ELSE /\ status' = [status EXCEPT ![c] = 404]
                     /\ pc' = [pc EXCEPT ![c] = "replied"]
    /\ UNCHANGED <<stateless, sessions, sess, tstate, tcloser, sctxDone,
                   closeOnce, nfinal, nconnect, respSid, creator, sseOut,
                   sseSince, sseKnown, norphan, nonclose>>
    /\ UNCHANGED <<pending, chan, payload, outcome, hpc, hmsg, hch, hev,
                   ndelivered, hlate, nsent, hasStore, stored, bcasts>>
    /\ UNCHANGED <<fanVars, memVars, beyondStore>>

\* session.close, first half: s.cancel() and s.closeOnce.Do(onClose).
SessClose(c) ==
    /\ pc[c] = "close"
    /\ sctxDone' = TRUE
    /\ RunCloseOnce
    /\ pc' = [pc EXCEPT ![c] = "tclose"]
    /\ UNCHANGED <<stateless, sess, tstate, tcloser, nconnect, hkind, hsid,
                   status, respSid, creator, sseOut, sseSince, sseKnown, norphan, nonclose>>
    /\ UNCHANGED <<pending, chan, payload, outcome, hpc, hmsg, hch, hev,
                   ndelivered, hlate, nsent, hasStore, stored, bcasts>>
    /\ UNCHANGED <<fanVars, memVars, beyondStore>>

\* What the handler does once transport.Close has returned.
AfterClose(c) ==
    /\ pc' = [pc EXCEPT ![c] = "replied"]
    /\ status' = [status EXCEPT ![c] = IF hkind[c] = "delete" THEN 204 ELSE @]

\* Client.close: enter the close-once guard: stdin and cmd are taken, stdin
\* is closed and the child killed.  The closer is a handler inside
\* session.close, or the waiter that saw the child exit.
TransportCloseBegin(by) ==
    /\ IF by = Waiter THEN tstate = "started"
                      ELSE pc[by] = "tclose" /\ tstate \in {"new", "started"}
    /\ tstate' = "closing"
    /\ tcloser' = by
    /\ pc' = IF by = Waiter THEN pc ELSE [pc EXCEPT ![by] = "thook"]
    /\ UNCHANGED <<stateless, sessions, sess, sctxDone, closeOnce, nfinal,
                   nconnect, hkind, hsid, status, respSid, creator, sseOut,
                   sseSince, sseKnown, norphan, nonclose>>
    /\ UNCHANGED <<pending, chan, payload, outcome, hpc, hmsg, hch, hev,
                   ndelivered, hlate, nsent, hasStore, stored, bcasts>>
    /\ UNCHANGED <<fanVars, memVars, beyondStore>>

\* Client.close, inside the guard: the transport's OnClose hook, which is the
\* session's: s.cancel() and s.closeOnce.Do(onClose).  Close then returns.
TransportCloseHook ==
    /\ tstate = "closing"
    /\ tstate' = "closed"
    /\ nonclose' = nonclose + 1
    /\ sctxDone' = TRUE
    /\ RunCloseOnce
    /\ IF tcloser = Waiter
         THEN UNCHANGED <<pc, status>>
         ELSE AfterClose(tcloser)
    /\ UNCHANGED <<stateless, sess, tcloser, nconnect, hkind, hsid, respSid,
                   creator, sseOut, sseSince, sseKnown, norphan>>
    /\ UNCHANGED <<pending, chan, payload, outcome, hpc, hmsg, hch, hev,
                   ndelivered, hlate, nsent, hasStore, stored, bcasts>>
    /\ UNCHANGED <<fanVars, memVars, beyondStore>>

\* A close without the close-once guard: the observer fires again.
TransportCloseAgainFires(c) ==
    /\ pc[c] = "tclose"
    /\ tstate = "closed"
    /\ nonclose' = nonclose + 1
    /\ AfterClose(c)
    /\ UNCHANGED <<stateless, sessions, sess, tstate, tcloser, sctxDone,
                   closeOnce, nfinal, nconnect, hkind, hsid, respSid, creator,
                   sseOut, sseSince, sseKnown, norphan>>
    /\ UNCHANGED <<pending, chan, payload, outcome, hpc, hmsg, hch, hev,
                   ndelivered, hlate, nsent, hasStore, stored, bcasts>>
    /\ UNCHANGED <<fanVars, memVars, beyondStore>>

\* Client.close on a transport already closed: the guard makes it a no-op.
\* (While another closer is inside the guard the caller waits.)
TransportCloseAgain(c) ==
    /\ pc[c] = "tclose"
    /\ tstate = "closed"
    /\ AfterClose(c)
    /\ UNCHANGED <<stateless, sessions, sess, tstate, tcloser, sctxDone,
                   closeOnce, nfinal, nconnect, hkind, hsid, respSid, creator,
                   sseOut, sseSince, sseKnown, norphan, nonclose>>
    /\ UNCHANGED <<pending, chan, payload, outcome, hpc, hmsg, hch, hev,
                   ndelivered, hlate, nsent, hasStore, stored, bcasts>>
    /\ UNCHANGED <<fanVars, memVars, beyondStore>>

\* GET on the SSE endpoint: a session id is generated and a transport is
\* made, neither is used; the greeting is written.  The mcp-session-id
\* header is not read.
HttpSse(c, sid) ==
    /\ Authorized(c)
    /\ hkind' = [hkind EXCEPT ![c] = "sse"]
    /\ hsid' = [hsid EXCEPT ![c] = sid]
    /\ \E ok \in BOOLEAN :
         IF ok
           THEN /\ norphan' = norphan + 1
                /\ status' = [status EXCEPT ![c] = 200]
                /\ sseOut' = [sseOut EXCEPT ![c] =
                                <<SseLine("data", Payload("sse/connection", 0))>>]
                /\ sseSince' = [sseSince EXCEPT ![c] = ndelivered]
                /\ sseKnown' = [sseKnown EXCEPT ![c] = sid \in sessions]
                /\ pc' = [pc EXCEPT ![c] = "sse"]
           ELSE /\ status' = [status EXCEPT ![c] = 500]
                /\ pc' = [pc EXCEPT ![c] = "replied"]
                /\ UNCHANGED <<norphan, sseOut, sseSince, sseKnown>>
    /\ UNCHANGED <<stateless, sessions, sess, tstate, tcloser, sctxDone,
                   closeOnce, nfinal, nconnect, respSid, creator, nonclose>>
    /\ UNCHANGED <<pending, chan, payload, outcome, hpc, hmsg, hch, hev,
                   ndelivered, hlate, nsent, hasStore, stored, bcasts>>
    /\ UNCHANGED <<fanVars, memVars, beyondStore>>

\* handleSSE loop, case <-ticker.C: write a keepalive comment.
SseKeepalive(c) ==
    /\ pc[c] = "sse"
    /\ Len(sseOut[c]) < 1 + MaxKeepalive
    /\ sseOut' = [sseOut EXCEPT ![c] =
                     Append(@, SseLine("comment", Payload("keepalive", 0)))]
    /\ UNCHANGED <<stateless, sessions, sess, tstate, tcloser, sctxDone,
                   closeOnce, nfinal, nconnect, hkind, hsid, status, respSid,
                   creator, sseSince, sseKnown, norphan, nonclose>>
    /\ UNCHANGED <<sessVars, fanVars, memVars, beyondStore>>

\* handleSSE loop, case <-ctx.Done(): the client went away.
SseClose(c) ==
    /\ pc[c] = "sse"
    /\ pc' = [pc EXCEPT ![c] = "replied"]
    /\ UNCHANGED <<pending, chan, payload, outcome, hpc, hmsg, hch, hev,
                   ndelivered, hlate, nsent, hasStore, stored, bcasts>>
    /\ UNCHANGED <<srvVars, fanVars, memVars, beyondStore>>

----------------------------------------------------------------------------
(* eventstore.Memory.  Strings are sequences of characters. *)

\* Stream ids (session ids); one is a prefix of the other.
Streams == {<<"a">>, <<"a", "b">>}

\* uuid.NewString for the n-th event stored: never repeats.
Uuid(n) == <<"u", ToString(n)>>

\* An id without the stream id in front.
GenerateIDBare(streamID, n) == Uuid(n)

\* Memory.generateID: streamID + "_" + uuid.NewString()
GenerateID(streamID, n) == streamID \o <<"_">> \o Uuid(n)

\* Ids a caller may ask a replay for: ids the store has returned or will
\* return, and ids it never returns (uuid 0, or a uuid under another stream).
ReplayIds == {GenerateID(st, n) : st \in Streams, n \in 0..MaxEvents}

\* eventstore.Event
MemEvent(id, streamID, p, ts) ==
    [ID |-> id, StreamID |-> streamID, Payload |-> p, Timestamp |-> ts]

\* The empty string.
EmptyString == <<>>

IsPrefix(p, str) == Len(p) <= Len(str) /\ SubSeq(str, 1, Len(p)) = p

EventsOf(log) == {log[i] : i \in 1..Len(log)}

\* A lookup that takes any event whose stream id begins the id asked for.
MemLookupByPrefix(id) == {e \in EventsOf(mevents) : IsPrefix(e.StreamID, id)}

\* event, ok := m.events[lastEventID]: the events found (none or one).
MemLookup(id) == {e \in EventsOf(mevents) : e.ID = id}

\* sort.Slice by Timestamp.Before over the events of one stream collected
\* from the map: every arrangement in which no event is before an earlier
\* one; events of equal timestamps come in any order.
SortedOrders(S) ==
    {f \in [1..Cardinality(S) -> S] :
        /\ \A i, j \in 1..Cardinality(S) : i # j => f[i] # f[j]
        /\ \A i, j \in 1..Cardinality(S) : i < j => ~(f[j].Timestamp < f[i].Timestamp)}

\* m.mu is read-locked by the replay.
RLockHeld == rpc \in {"lookup", "loop"}

\* Memory.Store under m.mu.Lock.  A finished replay's result is no longer
\* followed once the store changes.
MemStore(streamID) ==
    /\ ~RLockHeld
    /\ Len(mevents) < MaxEvents
    /\ mevents' = Append(mevents,
                     MemEvent(GenerateID(streamID, Len(mevents) + 1), streamID,
                              Len(mevents) + 1, mclock))
    /\ rpc' = "idle" /\ rid' = EmptyString /\ rorder' = <<>> /\ ri' = 0
    /\ rfound' = FALSE /\ rvisited' = <<>> /\ rret' = EmptyString
    /\ UNCHANGED <<mclock, sessVars, fanVars, srvVars, beyondStore>>

\* Store, for any stream.
MemStoreAny == \E streamID \in Streams : MemStore(streamID)

\* The clock advances between two readings of time.Now.
MemTick ==
    /\ mclock < MaxClock
    /\ mclock' = mclock + 1
    /\ UNCHANGED <<mevents, rpc, rid, rorder, ri, rfound, rvisited, rret>>
    /\ UNCHANGED <<sessVars, fanVars, srvVars, beyondStore>>

\* ReplayAfter: m.mu.RLock (released on return only).
ReplayBegin(id) ==
    /\ ~RLockHeld
    /\ rpc' = "lookup"
    /\ rid' = id
    /\ rorder' = <<>> /\ ri' = 0 /\ rfound' = FALSE
    /\ rvisited' = <<>> /\ rret' = EmptyString
    /\ UNCHANGED <<mevents, mclock, sessVars, fanVars, srvVars, beyondStore>>

\* ReplayAfter: look the id up; on a miss return ""; on a hit collect the
\* events of the stream and sort them.
ReplayLookup ==
    /\ rpc = "lookup"
    /\ IF MemLookup(rid) = {}
         THEN /\ rpc' = "returned"
              /\ rret' = EmptyString
              /\ UNCHANGED <<rorder, ri>>
         ELSE \E event \in MemLookup(rid) :
                /\ rret' = event.StreamID
                /\ \E f \in SortedOrders({e \in EventsOf(mevents) :
                                              e.StreamID = event.StreamID}) :
                      rorder' = f
                /\ ri' = 1
                /\ rpc' = "loop"
    /\ UNCHANGED <<mevents, mclock, rid, rfound, rvisited>>
    /\ UNCHANGED <<sessVars, fanVars, srvVars, beyondStore>>

\* ReplayAfter: one turn of the loop over streamEvents.
ReplayVisit ==
    /\ rpc = "loop"
    /\ ri <= Len(rorder)
    /\ IF rorder[ri].ID = rid
         THEN rfound' = TRUE /\ UNCHANGED rvisited
         ELSE /\ rvisited' = IF rfound THEN Append(rvisited, rorder[ri]) ELSE rvisited
              /\ UNCHANGED rfound
    /\ ri' = ri + 1
    /\ UNCHANGED <<mevents, mclock, rpc, rid, rorder, rret>>
    /\ UNCHANGED <<sessVars, fanVars, srvVars, beyondStore>>

\* ReplayAfter: the loop is over: return streamID (and RUnlock).
ReplayReturn ==
    /\ rpc = "loop"
    /\ ri > Len(rorder)
    /\ rpc' = "returned"
    /\ UNCHANGED <<mevents, mclock, rid, rorder, ri, rfound, rvisited, rret>>
    /\ UNCHANGED <<sessVars, fanVars, srvVars, beyondStore>>

----------------------------------------------------------------------------
(* The Bridge (internal/proxy): forwarding between two transports *)

\* Calls of Bridge.forward, and of the transports' error hooks.
MaxFwd == 3
MaxBridgeErrors == 1

\* The two transports of a bridge, by the name the bridge reports them under.
Sides == {"left", "right"}

Other(side) == IF side = "left" THEN "right" ELSE "left"

\* Numbers a direction's counter may reach.
ProxyNums == 1..MaxFwd

\* Raw JSON is a sequence of one-character strings. NoTok: the key is absent.
NoTok == <<>>

Quote == "\""

\* strQuote: the bytes of s between two double quotes.
StrQuote(s) == <<Quote>> \o s \o <<Quote>>

\* fmt.Sprintf("proxy-%d", n).
ProxyID(n) == <<"p", "r", "o", "x", "y", "-", ToString(n)>>

\* What encoding/json writes for one byte of a Marshaler's output when HTML
\* escaping is on (json.Marshal always has it on).
EscapeByte(c) ==
    IF c = "<" THEN <<"\\", "u", "0", "0", "3", "c">>
    ELSE IF c = ">" THEN <<"\\", "u", "0", "0", "3", "e">>
    ELSE IF c = "&" THEN <<"\\", "u", "0", "0", "2", "6">>
    ELSE <<c>>

\* encoding/json compact, as json.Marshal applies it to the output of a
\* Marshaler (json.RawMessage, mcp.Message): white space outside strings is
\* dropped, '<', '>' and '&' are written as \u escapes. mode is "out"
\* (outside a string), "in" (inside one) or "esc" (after a backslash).
RECURSIVE CompactFrom(_, _)
CompactFrom(bytes, mode) ==
    IF bytes = <<>> THEN <<>>
    ELSE LET c == Head(bytes)
             rest == Tail(bytes)
         IN  IF mode = "esc" THEN <<c>> \o CompactFrom(rest, "in")
             ELSE IF mode = "in"
                  THEN IF c = "\\" THEN <<c>> \o CompactFrom(rest, "esc")
                       ELSE IF c = Quote THEN <<c>> \o CompactFrom(rest, "out")
                       ELSE EscapeByte(c) \o CompactFrom(rest, "in")
             ELSE IF c \in {" ", "\t", "\r", "\n"} THEN CompactFrom(rest, "out")
             ELSE IF c = Quote THEN <<c>> \o CompactFrom(rest, "in")
             ELSE EscapeByte(c) \o CompactFrom(rest, "out")

Compact(bytes) == CompactFrom(bytes, "out")

\* json.Unmarshal(raw, &id) with id a Go string succeeds exactly on a JSON
\* string token; StringOf is the string it yields (the tokens of the model
\* carry no backslash escapes).
IsStringToken(tok) == Len(tok) >= 2 /\ Head(tok) = Quote /\ tok[Len(tok)] = Quote

StringOf(tok) == SubSeq(tok, 2, Len(tok) - 1)

\* Absence of the "method" key, and of params the model follows.
NoMethod == ""

NoParams == [source |-> "", error |-> ""]

\* A message as the bridge reads it: whether it unmarshals into a JSON
\* object, the raw token of its "id", its "method", and the remaining
\* fields (which forward never touches).
BMsg(ok, id, method, params) ==
    [ok |-> ok, id |-> id, method |-> method, params |-> params]

\* Ids a peer puts on its requests: a number, and a string with a '<'.
OrigIds == {<<"7">>, StrQuote(<<"a", "<", "b">>)}

\* Ids a peer puts on its responses: proxy ids it was handed, and a number.
RespIds == {StrQuote(ProxyID(n)) : n \in 1..2} \cup {<<"7">>}

\* Messages a transport may hand to the bridge: a line that is not a JSON
\* object, a notification, requests, responses.
BridgeInputs ==
    {BMsg(FALSE, NoTok, NoMethod, NoParams), BMsg(TRUE, NoTok, "notify", NoParams)}
    \cup {BMsg(TRUE, id, "call", NoParams) : id \in OrigIds}
    \cup {BMsg(TRUE, id, NoMethod, NoParams) : id \in RespIds}

\* Texts of transport errors.
ErrTexts == {"broken pipe"}

\* buildErrorNotification(source, err).
BuildErrorNotification(source, err) ==
    BMsg(TRUE, NoTok, "mcp-proxy/error", [source |-> source, error |-> err])

\* forward's test `_, ok := envelope["id"]; !ok`.
HasNoIdNever(msg) == FALSE

HasNoId(msg) == msg.id = NoTok

\* The map forward looks a response from `from` up in: onLeftMessage passes
\* rightMap as responseMap, onRightMessage passes leftMap.
ResponseMapShared(from) == "left"

ResponseMapOf(from) == Other(from)

\* to.Send(ctx, m).
SendTo(to, m) == sent' = [sent EXCEPT ![to] = Append(@, m)]

\* A mapping that stays in the map after it was used.
KeepMapping(tok) == tok

\* responseMap.Delete(id) after the restored response was sent: the entry
\* is gone.
AfterRestore(tok) == NoTok

\* Bridge.forward(msg, from, to, seq, requestMap, responseMap), called by
\* onLeftMessage and onRightMessage.
BridgeForward(from, msg) ==
    LET to == Other(from)
        n == seqs[from] + 1
        rm == ResponseMapOf(from)
        key == StringOf(msg.id)
        hits == {k \in ProxyNums : ProxyID(k) = key /\ idMap[rm][k] # NoTok}
    IN  /\ nfwd < MaxFwd
        /\ nfwd' = nfwd + 1
        /\ bin' = [kind |-> "message", from |-> from, msg |-> msg, err |-> ""]
        /\ IF ~msg.ok \/ HasNoId(msg)
           THEN \* not a JSON object, or no id: forwarded as it came
                /\ SendTo(to, msg)
                /\ UNCHANGED <<idMap, seqs, assigned>>
           ELSE IF msg.method # NoMethod
           THEN \* a request: the id becomes "proxy-<n>"
                /\ seqs' = [seqs EXCEPT ![from] = n]
                /\ idMap' = [idMap EXCEPT ![from][n] = msg.id]
                /\ assigned' = [assigned EXCEPT ![from][n] = msg.id]
                /\ SendTo(to, [msg EXCEPT !.id = Compact(StrQuote(ProxyID(n)))])
           ELSE IF ~IsStringToken(msg.id) \/ hits = {}
           THEN \* a response whose id is no string or is not in the map
                /\ SendTo(to, msg)
                /\ UNCHANGED <<idMap, seqs, assigned>>
           ELSE \* a response to a namespaced request: json.Marshal of the
                \* envelope with the stored raw id put back
                /\ \E k \in hits :
                    /\ SendTo(to, [msg EXCEPT !.id = Compact(idMap[rm][k])])
                    /\ idMap' = [idMap EXCEPT ![rm][k] = AfterRestore(@)]
                /\ UNCHANGED <<seqs, assigned>>
        /\ UNCHANGED <<nberr, beyondBridge>>

\* The OnError hooks NewBridge installs: an error of transport `side` is
\* sent to the other transport as a notification.
BridgeOnError(side, err) ==
    /\ nberr < MaxBridgeErrors
    /\ nberr' = nberr + 1
    /\ bin' = [kind |-> "error", from |-> side, msg |-> BMsg(FALSE, NoTok, NoMethod, NoParams),
               err |-> err]
    /\ SendTo(Other(side), BuildErrorNotification(side, err))
    /\ UNCHANGED <<idMap, seqs, assigned, nfwd, beyondBridge>>

----------------------------------------------------------------------------
(* The Bridge's Start and Close, over stdio clients and the test transport *)

\* Calls of Bridge.Start and of Bridge.Close.
MaxStartCalls == 2
MaxCloseCalls == 1

\* Implementations of mcp.Transport: stdio.Client, and the mockTransport of
\* the bridge's tests.
Kinds == {"stdio", "mock"}

\* Goroutines: the one calling Bridge.Start and Bridge.Close; per stdio
\* client the one that waits for the child (cmd.Wait, then close); per
\* mockTransport the one its Close starts for the OnClose hook.
Caller == "caller"

WaiterOf(side) == IF side = "left" THEN "wait-left" ELSE "wait-right"

HookOf(side) == IF side = "left" THEN "hook-left" ELSE "hook-right"

Threads == {Caller} \cup {WaiterOf(s) : s \in Sides} \cup {HookOf(s) : s \in Sides}

NoThread == "nobody"

\* A call of Close on transport `side` that a goroutine is inside: "call"
\* before it got past the once guard, "hook" while it runs the OnClose hook
\* from inside the guard.
Frame(side, at) == [side |-> side, at |-> at]

Top(t) == stack[t][Len(stack[t])]

Pop(t) == SubSeq(stack[t], 1, Len(stack[t]) - 1)

\* Bridge.Start: the caller enters startedOnce; a later call finds it done
\* and returns its own (nil) errLeft and errRight.
BridgeStart ==
    /\ bpc = "idle"
    /\ nStartCalls < MaxStartCalls
    /\ nStartCalls' = nStartCalls + 1
    /\ IF startedOnce = "fresh"
       THEN /\ startedOnce' = "running"
            /\ bpc' = "startLeft"
            /\ UNCHANGED lastRet
       ELSE /\ lastRet' = "nil"
            /\ UNCHANGED <<startedOnce, bpc>>
    /\ UNCHANGED <<kinds, trun, nstart, closedOnce, onceHolder, onCloseFired,
                   stack, startRet, nCloseCalls, beyondLife>>

\* errLeft = b.left.Start(ctx); on an error the once body returns. A
\* mockTransport's Start returns nil.
BridgeStartLeft(ok) ==
    /\ bpc = "startLeft"
    /\ kinds["left"] = "mock" => ok
    /\ nstart' = [nstart EXCEPT !["left"] = @ + 1]
    /\ trun' = [trun EXCEPT !["left"] = IF ok THEN "started" ELSE "failed"]
    /\ IF ok
       THEN /\ bpc' = "startRight"
            /\ UNCHANGED <<startedOnce, startRet, lastRet>>
       ELSE /\ bpc' = "idle"
            /\ startedOnce' = "done"
            /\ startRet' = "errLeft"
            /\ lastRet' = "errLeft"
    /\ UNCHANGED <<kinds, closedOnce, onceHolder, onCloseFired, stack,
                   nStartCalls, nCloseCalls, beyondLife>>

\* errRight = b.right.Start(ctx); on an error the once body calls
\* b.left.Close().
BridgeStartRight(ok) ==
    /\ bpc = "startRight"
    /\ kinds["right"] = "mock" => ok
    /\ nstart' = [nstart EXCEPT !["right"] = @ + 1]
    /\ trun' = [trun EXCEPT !["right"] = IF ok THEN "started" ELSE "failed"]
    /\ IF ok
       THEN /\ bpc' = "idle"
            /\ startedOnce' = "done"
            /\ startRet' = "nil"
            /\ lastRet' = "nil"
            /\ UNCHANGED stack
       ELSE /\ bpc' = "failClose"
            /\ stack' = [stack EXCEPT ![Caller] = Append(@, Frame("left", "call"))]
            /\ UNCHANGED <<startedOnce, startRet, lastRet>>
    /\ UNCHANGED <<kinds, closedOnce, onceHolder, onCloseFired,
                   nStartCalls, nCloseCalls, beyondLife>>

\* b.left.Close() has returned inside Start: the once body ends and Start
\* returns errRight.
BridgeStartFailed ==
    /\ bpc = "failClose"
    /\ stack[Caller] = <<>>
    /\ bpc' = "idle"
    /\ startedOnce' = "done"
    /\ startRet' = "errRight"
    /\ lastRet' = "errRight"
    /\ UNCHANGED <<kinds, trun, nstart, closedOnce, onceHolder, onCloseFired,
                   stack, nStartCalls, nCloseCalls, beyondLife>>

\* Bridge.Close: _ = b.left.Close()
BridgeClose ==
    /\ bpc = "idle"
    /\ nCloseCalls < MaxCloseCalls
    /\ nCloseCalls' = nCloseCalls + 1
    /\ bpc' = "closeLeft"
    /\ stack' = [stack EXCEPT ![Caller] = Append(@, Frame("left", "call"))]
    /\ UNCHANGED <<kinds, startedOnce, trun, nstart, closedOnce, onceHolder,
                   onCloseFired, startRet, lastRet, nStartCalls, beyondLife>>

\* Bridge.Close: _ = b.right.Close()
BridgeCloseRight ==
    /\ bpc = "closeLeft"
    /\ stack[Caller] = <<>>
    /\ bpc' = "closeRight"
    /\ stack' = [stack EXCEPT ![Caller] = Append(@, Frame("right", "call"))]
    /\ UNCHANGED <<kinds, startedOnce, trun, nstart, closedOnce, onceHolder,
                   onCloseFired, startRet, lastRet, nStartCalls, nCloseCalls,
                   beyondLife>>

\* Bridge.Close: return nil
BridgeCloseReturn ==
    /\ bpc = "closeRight"
    /\ stack[Caller] = <<>>
    /\ bpc' = "idle"
    /\ UNCHANGED <<kinds, startedOnce, trun, nstart, closedOnce, onceHolder,
                   onCloseFired, stack, startRet, lastRet, nStartCalls,
                   nCloseCalls, beyondLife>>

\* The child of a started stdio client exits (by itself or killed): the
\* goroutine Start left behind returns from cmd.Wait and calls c.close().
TrProcessExit(side) ==
    /\ kinds[side] = "stdio"
    /\ trun[side] = "started"
    /\ stack[WaiterOf(side)] = <<>>
    /\ trun' = [trun EXCEPT ![side] = "exited"]
    /\ stack' = [stack EXCEPT ![WaiterOf(side)] = <<Frame(side, "call")>>]
    /\ UNCHANGED <<kinds, startedOnce, nstart, closedOnce, onceHolder,
                   onCloseFired, bpc, startRet, lastRet, nStartCalls,
                   nCloseCalls, beyondLife>>

\* stdio Client.close: closedOnce.Do runs its function for the first caller:
\* stdin is closed, the child killed, and onClose is called from inside the
\* guard; the hook NewBridge installed calls Close on the other transport.
TrCloseEnter(t) ==
    /\ stack[t] # <<>>
    /\ Top(t).at = "call"
    /\ kinds[Top(t).side] = "stdio"
    /\ closedOnce[Top(t).side] = "fresh"
    /\ closedOnce' = [closedOnce EXCEPT ![Top(t).side] = "running"]
    /\ onceHolder' = [onceHolder EXCEPT ![Top(t).side] = t]
    /\ onCloseFired' = [onCloseFired EXCEPT ![Top(t).side] = @ + 1]
    /\ stack' = [stack EXCEPT ![t] =
                     Pop(t) \o <<Frame(Top(t).side, "hook"),
                                 Frame(Other(Top(t).side), "call")>>]
    /\ UNCHANGED <<kinds, startedOnce, trun, nstart, bpc, startRet, lastRet,
                   nStartCalls, nCloseCalls, beyondLife>>

\* The hook has returned: the function given to closedOnce.Do ends, the guard
\* is done and close returns.
TrCloseReturn(t) ==
    /\ stack[t] # <<>>
    /\ Top(t).at = "hook"
    /\ closedOnce' = [closedOnce EXCEPT ![Top(t).side] = "done"]
    /\ onceHolder' = [onceHolder EXCEPT ![Top(t).side] = NoThread]
    /\ stack' = [stack EXCEPT ![t] = Pop(t)]
    /\ UNCHANGED <<kinds, startedOnce, trun, nstart, onCloseFired, bpc,
                   startRet, lastRet, nStartCalls, nCloseCalls, beyondLife>>

\* closedOnce.Do on a guard that is done returns at once. (On a guard that
\* is running it waits for the runner, whoever the caller is: no step.)
TrCloseSkip(t) ==
    /\ stack[t] # <<>>
    /\ Top(t).at = "call"
    /\ kinds[Top(t).side] = "stdio"
    /\ closedOnce[Top(t).side] = "done"
    /\ stack' = [stack EXCEPT ![t] = Pop(t)]
    /\ UNCHANGED <<kinds, startedOnce, trun, nstart, closedOnce, onceHolder,
                   onCloseFired, bpc, startRet, lastRet, nStartCalls,
                   nCloseCalls, beyondLife>>

\* mockTransport.Close: under its mutex, return if closed; else set closed
\* and start a goroutine for the hook.
TrMockClose(t) ==
    /\ stack[t] # <<>>
    /\ Top(t).at = "call"
    /\ kinds[Top(t).side] = "mock"
    /\ IF closedOnce[Top(t).side] = "done"
       THEN /\ stack' = [stack EXCEPT ![t] = Pop(t)]
            /\ UNCHANGED <<closedOnce, onCloseFired>>
       ELSE /\ closedOnce' = [closedOnce EXCEPT ![Top(t).side] = "done"]
            /\ onCloseFired' = [onCloseFired EXCEPT ![Top(t).side] = @ + 1]
            /\ stack' = [stack EXCEPT
                           ![t] = Pop(t),
                           ![HookOf(Top(t).side)] =
                               <<Frame(Other(Top(t).side), "call")>>]
    /\ UNCHANGED <<kinds, startedOnce, trun, nstart, onceHolder, bpc,
                   startRet, lastRet, nStartCalls, nCloseCalls, beyondLife>>

----------------------------------------------------------------------------
(* The stdio client's Start and Close (internal/stdio) *)

\* Calls of Client.Start and of Client.Close.
MaxClientStarts == 3
MaxClientCloses == 2

\* Start calls, by their order.
StartCalls == 1..MaxClientStarts

\* c.cmd == nil.
NoCmd == 0

\* Client.Start up to `c.mu.Unlock()` (client.go:106-110): with c.cmd set it
\* returns "already started"; creating a pipe may fail, which returns the
\* error with c.cmd still nil; else c.cmd is set.
ClientStartLocked(pipesOk) ==
    /\ cspc = "idle"
    /\ Len(cstarts) < MaxClientStarts
    /\ IF ccmd # NoCmd
       THEN /\ cstarts' = Append(cstarts, "already started")
            /\ UNCHANGED <<ccmd, cspc>>
       ELSE IF ~pipesOk
       THEN /\ cstarts' = Append(cstarts, "pipe error")
            /\ UNCHANGED <<ccmd, cspc>>
       ELSE /\ ccmd' = Len(cstarts) + 1
            /\ cspc' = "exec"
            /\ UNCHANGED cstarts
    /\ UNCHANGED <<child, wpend, cclosed, ncloses, beyondClient>>

\* Client.Start from cmd.Start() on: a failure returns the error; else the
\* child runs, the reader and waiter goroutines are started, nil is returned.
ClientStartExec(execOk) ==
    /\ cspc = "exec"
    /\ cspc' = "idle"
    /\ IF execOk
       THEN /\ child' = [child EXCEPT ![Len(cstarts) + 1] = "alive"]
            /\ cstarts' = Append(cstarts, "nil")
       ELSE /\ cstarts' = Append(cstarts, "exec error")
            /\ UNCHANGED child
    /\ UNCHANGED <<ccmd, wpend, cclosed, ncloses, beyondClient>>

\* The body of closedOnce.Do in Client.close: c.stdin and c.cmd are taken
\* and set to nil, the child of the taken cmd is killed, onClose is called.
CloseBody ==
    /\ cclosed' = TRUE
    /\ ccmd' = NoCmd
    /\ IF ccmd # NoCmd /\ child[ccmd] = "alive"
       THEN child' = [child EXCEPT ![ccmd] = "dead"]
       ELSE UNCHANGED child

\* Client.Close().
ClientClose ==
    /\ ncloses < MaxClientCloses
    /\ ncloses' = ncloses + 1
    /\ IF cclosed
       THEN UNCHANGED <<cclosed, ccmd, child>>
       ELSE CloseBody
    /\ UNCHANGED <<wpend, cstarts, cspc, beyondClient>>

\* A running child exits by itself: its cmd.Wait returns.
ClientChildExit(k) ==
    /\ child[k] = "alive"
    /\ child' = [child EXCEPT ![k] = "dead"]
    /\ wpend' = wpend \cup {k}
    /\ UNCHANGED <<ccmd, cclosed, cstarts, cspc, ncloses, beyondClient>>

\* The waiter goroutine of child k, after cmd.Wait: c.close().
ClientWaiterClose(k) ==
    /\ k \in wpend
    /\ wpend' = wpend \ {k}
    /\ IF cclosed
       THEN UNCHANGED <<cclosed, ccmd, child>>
       ELSE CloseBody
    /\ UNCHANGED <<cstarts, cspc, ncloses, beyondClient>>

----------------------------------------------------------------------------
(* The newline-JSON filter (internal/jsonfilter) *)

\* Length of the filter's input, and of the buffer a Read call passes.
MaxInputLen == 4
MaxBuf == 4

\* Bytes of the input: a brace, another printable byte, a blank, a line feed.
FilterBytes == {"{", "x", " ", "\n"}

LF == "\n"

\* The byte strings of length at most n.
BytesUpTo(n) == UNION {[1..k -> FilterBytes] : k \in 0..n}

\* The bytes bytes.TrimSpace removes.
IsSpace(c) == c \in {" ", "\t", "\r", "\n"}

\* bytes.TrimSpace.
TrimSpace(s) ==
    LET solid == {i \in 1..Len(s) : ~IsSpace(s[i])}
    IN  IF solid = {} THEN <<>>
        ELSE SubSeq(s, CHOOSE i \in solid : \A j \in solid : i <= j,
                       CHOOSE i \in solid : \A j \in solid : i >= j)

\* What the filter writes to pending for one line: its trimmed form and a
\* line feed if that form starts with '{', nothing otherwise.
Emit(line) ==
    LET trimmed == TrimSpace(line)
    IN  IF trimmed # <<>> /\ trimmed[1] = "{" THEN trimmed \o <<LF>> ELSE <<>>

\* A filter that forgets the unfinished line at the end of a chunk.
DropRemainder(line) == <<>>

\* flushBufferedLines, `r.buffer.WriteString(line)`: the unfinished line goes
\* back into the buffer.
Remainder(line) == line

\* flushBufferedLines: every complete line of buf is taken out and emitted
\* into pending; the rest stays in the buffer.
RECURSIVE FlushBufferedLines(_, _)
FlushBufferedLines(buf, pend) ==
    LET ends == {i \in 1..Len(buf) : buf[i] = LF}
    IN  IF ends = {} THEN [pending |-> pend, buffer |-> Remainder(buf)]
        ELSE LET i == CHOOSE e \in ends : \A f \in ends : e <= f
             IN  FlushBufferedLines(SubSeq(buf, i + 1, Len(buf)),
                                    pend \o Emit(SubSeq(buf, 1, i)))

\* r.pending.Read(p): up to plen bytes leave pending for the caller.
Deliver(pend, plen) ==
    LET k == IF Len(pend) < plen THEN Len(pend) ELSE plen
    IN  /\ fout' = fout \o SubSeq(pend, 1, k)
        /\ fpending' = SubSeq(pend, k + 1, Len(pend))

\* Reader.Read(p) with len(p) = plen; the source's Read yields the next n
\* bytes, with io.EOF (eof) only when they are the last, and when nothing is
\* left. The caller stops at the first io.EOF.
ReaderRead(plen, n, eof) ==
    /\ ~feof
    /\ IF fpending # <<>>
       THEN /\ Deliver(fpending, plen)
            /\ UNCHANGED <<fsource, fbuffer, feof, fsplit>>
       ELSE /\ n <= plen /\ n <= Len(fsource)
            /\ eof => n = Len(fsource)
            /\ n = 0 => eof
            /\ fsource' = SubSeq(fsource, n + 1, Len(fsource))
            /\ fsplit' = (fsplit \/ (0 < n /\ n < Len(fsource)))
            /\ LET f == IF n > 0
                        THEN FlushBufferedLines(fbuffer \o SubSeq(fsource, 1, n), <<>>)
                        ELSE [pending |-> <<>>, buffer |-> fbuffer]
               IN  IF f.pending # <<>>
                   THEN /\ Deliver(f.pending, plen)
                        /\ fbuffer' = f.buffer
                        /\ UNCHANGED feof
                   ELSE IF eof
                   THEN /\ fbuffer' = <<>>
                        /\ IF Emit(f.buffer) # <<>>
                           THEN /\ Deliver(Emit(f.buffer), plen)
                                /\ UNCHANGED feof
                           ELSE /\ feof' = TRUE
                                /\ UNCHANGED <<fout, fpending>>
                   ELSE /\ fbuffer' = f.buffer
                        /\ UNCHANGED <<fout, fpending, feof>>

\* A Read call by a caller that keeps calling until io.EOF.
FilterRead(plen, n, eof) ==
    /\ ReaderRead(plen, n, eof)
    /\ UNCHANGED <<finput, rdempty, rdstate, cwrote, cdone, beyondFilter>>

\* bufio.Reader.fill gives up with io.ErrNoProgress after this many reads in
\* a row that returned no byte and no error (maxConsecutiveEmptyReads).
MaxConsecutiveEmptyReads == 100

\* Bytes the stdout pipe holds before the child's write blocks; JSON lines
\* the child writes.
PipeCap == 3
MaxJsonLines == 2

\* What the child writes at once: a diagnostic line, an empty line, a JSON
\* line, another JSON line.
DiagLines == {<<"x", LF>>, <<LF>>}

JsonLineSet == {<<"{", LF>>, <<"{", "x", LF>>}

\* The child writes a line to its stdout.
ChildWrite(line) ==
    /\ ~cdone
    /\ Len(fsource) + Len(line) <= PipeCap
    /\ line \in JsonLineSet => Len(cwrote) < MaxJsonLines
    /\ fsource' = fsource \o line
    /\ cwrote' = IF line \in JsonLineSet THEN Append(cwrote, line) ELSE cwrote
    /\ UNCHANGED <<finput, fbuffer, fpending, fout, feof, fsplit, rdempty,
                   rdstate, cdone, beyondFilter>>

\* The child closes its stdout (it exits).
ChildCloseStdout ==
    /\ ~cdone
    /\ cdone' = TRUE
    /\ UNCHANGED <<finput, fsource, fbuffer, fpending, fout, feof, fsplit,
                   rdempty, rdstate, cwrote, beyondFilter>>

\* Client.readStdout, one Read of the filter by bufio's fill inside
\* reader.ReadBytes: the pipe hands over n bytes it holds, or io.EOF once it
\* is empty and closed.  Bytes returned reach onMessage line by line; a read
\* of nothing is counted, and at MaxConsecutiveEmptyReads of them ReadBytes
\* returns io.ErrNoProgress: reportError, and the loop returns.  On io.EOF
\* the loop returns.
ReadStdout(n, eof) ==
    /\ rdstate = "reading"
    /\ fpending = <<>> =>
           \/ n >= 1 /\ ~eof
           \/ n = 0 /\ eof /\ cdone /\ fsource = <<>>
    /\ fpending # <<>> => (n = 0 /\ ~eof)
    /\ ReaderRead(MaxBuf, n, eof)
    /\ IF fout' # fout
       THEN /\ rdempty' = 0
            /\ UNCHANGED rdstate
       ELSE IF feof'
       THEN /\ rdstate' = "eof"
            /\ UNCHANGED rdempty
       ELSE /\ rdempty' = rdempty + 1
            /\ rdstate' = IF rdempty + 1 >= MaxConsecutiveEmptyReads
                           THEN "error" ELSE "reading"
    /\ UNCHANGED <<finput, cwrote, cdone, beyondFilter>>

----------------------------------------------------------------------------
(* mcp.Message *)

\* Length of the bytes a Message is made of; calls of Bytes; writes into
\* buffers the caller holds.
MaxMsgLen == 3
MaxBytesCalls == 2
MaxMutations == 1

\* Bytes of a message: braces and a blank.
MsgBytes == {"{", "}", " "}

MsgInputs == UNION {[1..k -> MsgBytes] : k \in 0..MaxMsgLen}

\* Byte slices live in cells of memory; a name that holds no slice holds NoCell.
Cells == 1..(3 + MaxBytesCalls)

NoCell == 0

\* The slices the model follows: the one given to NewMessage, Message.raw,
\* the one the last Bytes call returned, the raw of the Message that
\* json.Unmarshal filled.
Slices == {"in", "raw", "got", "uraw"}

\* encoding/json's validity check. Over braces and blanks the only JSON
\* values are the empty object with blanks anywhere around and inside it.
Valid(b) == Compact(b) = <<"{", "}">>

\* A result of a call that may fail.
Ok(b) == [ok |-> TRUE, bytes |-> b]

Failed == [ok |-> FALSE, bytes |-> <<>>]

NotCalled == [ok |-> FALSE, bytes |-> <<"-">>]

\* Message.MarshalJSON: m.Bytes(), nil.
MarshalJSON(raw) == raw

\* json.Marshal(m) for a Message m: MarshalJSON is called and its output is
\* checked and compacted into the result; invalid output is an error.
JsonMarshal(raw) ==
    IF Valid(MarshalJSON(raw)) THEN Ok(Compact(MarshalJSON(raw))) ELSE Failed

\* json.Unmarshal(b, &m): b is checked, then UnmarshalJSON is handed the
\* bytes of the value, without the white space around it.
UnmarshalInput(b) == IF Valid(b) THEN Ok(TrimSpace(b)) ELSE Failed

\* make + copy: a fresh cell with the same bytes.
Dup(from, name) ==
    /\ ncell < 3 + MaxBytesCalls
    /\ ncell' = ncell + 1
    /\ heap' = [heap EXCEPT ![ncell + 1] = heap[cellOf[from]]]
    /\ cellOf' = [cellOf EXCEPT ![name] = ncell + 1]

\* Message.Bytes(): a copy of m.raw is returned.
MsgBytesCall ==
    /\ nbytes < MaxBytesCalls
    /\ nbytes' = nbytes + 1
    /\ Dup("raw", "got")
    /\ mgot' = heap[cellOf["raw"]]
    /\ UNCHANGED <<minput, marshaled, unmarshaled, nmut, beyondMessage>>

\* The caller writes byte c at position i of a slice it holds: the one it
\* gave to NewMessage or the one Bytes returned last.
MsgMutate(name, i, c) ==
    /\ nmut < MaxMutations
    /\ name \in {"in", "got"}
    /\ cellOf[name] # NoCell
    /\ i \in 1..Len(heap[cellOf[name]])
    /\ heap[cellOf[name]][i] # c
    /\ nmut' = nmut + 1
    /\ heap' = [heap EXCEPT ![cellOf[name]][i] = c]
    /\ UNCHANGED <<minput, cellOf, ncell, mgot, marshaled, unmarshaled, nbytes,
                   beyondMessage>>

\* json.Marshal(m).
MsgMarshal ==
    /\ marshaled = NotCalled
    /\ marshaled' = JsonMarshal(heap[cellOf["raw"]])
    /\ UNCHANGED <<minput, heap, cellOf, ncell, mgot, unmarshaled, nbytes, nmut,
                   beyondMessage>>

\* json.Unmarshal(b, &m2) with the bytes the first Message was made of;
\* UnmarshalJSON copies what it is handed into m2.raw.
MsgUnmarshal ==
    /\ unmarshaled = NotCalled
    /\ unmarshaled' = UnmarshalInput(minput)
    /\ IF UnmarshalInput(minput).ok
       THEN /\ ncell < 3 + MaxBytesCalls
            /\ ncell' = ncell + 1
            /\ heap' = [heap EXCEPT ![ncell + 1] = UnmarshalInput(minput).bytes]
            /\ cellOf' = [cellOf EXCEPT !["uraw"] = ncell + 1]
       ELSE UNCHANGED <<heap, cellOf, ncell>>
    /\ UNCHANGED <<minput, mgot, marshaled, nbytes, nmut, beyondMessage>>

----------------------------------------------------------------------------
(* Initial states *)

\* NewBridge: empty maps, counters at zero, nothing sent.
InitBridge ==
    /\ idMap = [s \in Sides |-> [n \in ProxyNums |-> NoTok]]
    /\ seqs = [s \in Sides |-> 0]
    /\ sent = [s \in Sides |-> <<>>]
    /\ assigned = [s \in Sides |-> [n \in ProxyNums |-> NoTok]]
    /\ nfwd = 0
    /\ nberr = 0
    /\ bin = [kind |-> "none", from |-> "left", msg |-> BMsg(FALSE, NoTok, NoMethod, NoParams),
              err |-> ""]

\* NewBridge over two transports nobody has started or closed.
InitLife ==
    /\ startedOnce = "fresh"
    /\ trun = [s \in Sides |-> "new"]
    /\ nstart = [s \in Sides |-> 0]
    /\ closedOnce = [s \in Sides |-> "fresh"]
    /\ onceHolder = [s \in Sides |-> NoThread]
    /\ onCloseFired = [s \in Sides |-> 0]
    /\ stack = [t \in Threads |-> <<>>]
    /\ bpc = "idle"
    /\ startRet = "none"
    /\ lastRet = "none"
    /\ nStartCalls = 0
    /\ nCloseCalls = 0

\* NewClient.
InitClient ==
    /\ ccmd = NoCmd
    /\ child = [k \in StartCalls |-> "none"]
    /\ wpend = {}
    /\ cclosed = FALSE
    /\ cstarts = <<>>
    /\ cspc = "idle"
    /\ ncloses = 0

\* NewReader over a source that holds the bytes `input`.
InitFilter(input) ==
    /\ finput = input
    /\ fsource = input
    /\ fbuffer = <<>>
    /\ fpending = <<>>
    /\ fout = <<>>
    /\ feof = FALSE
    /\ fsplit = FALSE
    /\ rdempty = 0
    /\ rdstate = "reading"
    /\ cwrote = <<>>
    /\ cdone = FALSE

\* A server without an API key; requests carry none.
InitNoAuth ==
    /\ apiKey = NoKey
    /\ hkey = [c \in Calls |-> NoKey]

\* m := NewMessage(b): the caller's slice b in cell 1, m.raw a copy in cell 2.
InitMessage(b) ==
    /\ minput = b
    /\ heap = [c \in Cells |-> IF c \in {1, 2} THEN b ELSE <<>>]
    /\ cellOf = [n \in Slices |-> IF n = "in" THEN 1 ELSE IF n = "raw" THEN 2 ELSE NoCell]
    /\ ncell = 2
    /\ mgot = b
    /\ marshaled = NotCalled
    /\ unmarshaled = NotCalled
    /\ nbytes = 0
    /\ nmut = 0

\* A filter over an empty source, the Message of an empty slice.
InitRest ==
    /\ InitFilter(<<>>)
    /\ InitMessage(<<>>)

\* The components beside the gateway, as constructed.
InitParts ==
    /\ InitBridge
    /\ InitLife
    /\ kinds = [s \in Sides |-> "stdio"]
    /\ InitNoAuth
    /\ InitClient
    /\ InitRest


\* NewMemory, and nobody replaying.
InitMem ==
    /\ mevents = <<>>
    /\ mclock = 0
    /\ rpc = "idle"
    /\ rid = EmptyString
    /\ rorder = <<>>
    /\ ri = 0
    /\ rfound = FALSE
    /\ rvisited = <<>>
    /\ rret = EmptyString

InitSession ==
    /\ pending = [k \in RawIds |-> NoChan]
    /\ chan = [c \in Calls |-> <<>>]
    /\ payload = [c \in Calls |-> NilBody]
    /\ outcome = [c \in Calls |-> NoResult]
    /\ hpc = "idle"
    /\ hmsg = NilBody
    /\ hch = NoChan
    /\ hev = NoEvent
    /\ ndelivered = 0
    /\ hlate = FALSE
    /\ nsent = [c \in Calls |-> 0]
    /\ stored = <<>>
    /\ bcasts = <<>>

InitFanout ==
    /\ subs = {}
    /\ subch = [s \in Subs |-> <<>>]
    /\ subst = [s \in Subs |-> "new"]
    /\ lastSent = [s \in Subs |-> 0]
    /\ dropped = [s \in Subs |-> FALSE]
    /\ hbpc = "idle"
    /\ hbev = NoEvent
    /\ nbeats = 0
    /\ nerrs = 0

InitHttp ==
    /\ sessions = {}
    /\ tcloser = Waiter
    /\ sctxDone = FALSE
    /\ closeOnce = FALSE
    /\ nfinal = 0
    /\ nconnect = 0
    /\ hkind = [c \in Calls |-> "none"]
    /\ hsid = [c \in Calls |-> NoSid]
    /\ status = [c \in Calls |-> 0]
    /\ respSid = [c \in Calls |-> FALSE]
    /\ creator = 0
    /\ sseOut = [c \in Calls |-> <<>>]
    /\ sseSince = [c \in Calls |-> 0]
    /\ sseKnown = [c \in Calls |-> FALSE]
    /\ norphan = 0
    /\ nonclose = 0

\* A session made by newSession over a started transport, with or without an
\* event store, and its callers about to call request: no HTTP layer.
Init ==
    /\ InitSession /\ InitFanout /\ InitMem /\ InitParts /\ InitHttp
    /\ pc = [c \in Calls |-> "idle"]
    /\ hasStore \in BOOLEAN
    /\ stateless = FALSE
    /\ sess = "live"
    /\ tstate = "started"

\* The server after Start, in the default (stateful) mode: no session yet,
\* no request has arrived.
InitServer ==
    /\ InitSession /\ InitFanout /\ InitMem /\ InitParts /\ InitHttp
    /\ pc = [c \in Calls |-> "http"]
    /\ hasStore = FALSE
    /\ stateless = FALSE
    /\ sess = "none"
    /\ tstate = "none"

\* The server after Start in stateless mode.
InitStateless ==
    /\ InitSession /\ InitFanout /\ InitMem /\ InitParts /\ InitHttp
    /\ pc = [c \in Calls |-> "http"]
    /\ hasStore = FALSE
    /\ stateless = TRUE
    /\ sess = "none"
    /\ tstate = "none"

\* The stateful server with the session registered: an initialize request
\* was served earlier and its handler has returned.
InitRegistered ==
    /\ InitSession /\ InitFanout /\ InitMem /\ InitParts
    /\ pc = [c \in Calls |-> "http"]
    /\ hasStore = FALSE
    /\ stateless = FALSE
    /\ sessions = {TheSid}
    /\ sess = "live"
    /\ tstate = "started"
    /\ tcloser = Waiter
    /\ sctxDone = FALSE
    /\ closeOnce = FALSE
    /\ nfinal = 0
    /\ nconnect = 1
    /\ hkind = [c \in Calls |-> "none"]
    /\ hsid = [c \in Calls |-> NoSid]
    /\ status = [c \in Calls |-> 0]
    /\ respSid = [c \in Calls |-> FALSE]
    /\ creator = 0
    /\ sseOut = [c \in Calls |-> <<>>]
    /\ sseSince = [c \in Calls |-> 0]
    /\ sseKnown = [c \in Calls |-> FALSE]
    /\ norphan = 0
    /\ nonclose = 0

----------------------------------------------------------------------------
(* Specifications *)

\* The request/response correlator: callers and the transport's reader.
Next ==
    \/ \E c \in Calls, p \in ReqPayloads : ReqBegin(c, p)
    \/ \E c \in Calls : ReqSend(c)
    \/ \E c \in Calls : ReqSendFailed(c)
    \/ \E c \in Calls : ReqRecv(c)
    \/ \E c \in Calls : ReqCtxDone(c)
    \/ \E c \in Calls : ReqSettle(c)
    \/ \E b \in InboundBodies : HandleBegin(b)
    \/ HandleDeliver
    \/ HandleStore
    \/ HandleBroadcast

Spec == Init /\ [][Next]_vars

\* The fan-out: the transport's reader, the heartbeat task, the error hook
\* and the subscribers, with no request in flight.
NextFanout ==
    \/ \E b \in InboundBodies : HandleBegin(b)
    \/ HandleStore
    \/ HandleBroadcast
    \/ HbTick
    \/ HbStore
    \/ HbBroadcast
    \/ TransportError
    \/ \E s \in Subs : Subscribe(s)
    \/ \E s \in Subs : Unsubscribe(s)
    \/ \E s \in Subs : SubRecv(s)

SpecFanout == Init /\ [][NextFanout]_vars

\* The HTTP server with the session it creates.
NextServer ==
    \/ \E c \in Calls, sid \in Sids, b \in HttpBodies : HttpPost(c, sid, b)
    \/ \E c \in Calls, sid \in Sids : HttpDelete(c, sid)
    \/ \E c \in Calls, sid \in Sids : HttpSse(c, sid)
    \/ \E c \in Calls : CsNew(c)
    \/ \E c \in Calls : CsStart(c)
    \/ \E c \in Calls : CsRegister(c)
    \/ \E c \in Calls : HttpReply(c)
    \/ \E c \in Calls : SessClose(c)
    \/ \E by \in Calls \cup {Waiter} : TransportCloseBegin(by)
    \/ TransportCloseHook
    \/ \E c \in Calls : TransportCloseAgain(c)
    \/ \E c \in Calls : SseKeepalive(c)
    \/ \E c \in Calls : SseClose(c)
    \/ \E c \in Calls, p \in HttpBodies : ReqBegin(c, p)
    \/ \E c \in Calls : ReqSend(c)
    \/ \E c \in Calls : ReqSendFailed(c)
    \/ \E c \in Calls : ReqRecv(c)
    \/ \E c \in Calls : ReqCtxDone(c)
    \/ \E c \in Calls : ReqSettle(c)
    \/ \E b \in InboundBodies : HandleBegin(b)
    \/ HandleDeliver
    \/ HandleStore
    \/ HandleBroadcast

SpecServer == InitServer /\ [][NextServer]_vars

\* The server after Start with an API key configured and requests carrying
\* any header, or without one and requests carrying none or some key.
InitAuth ==
    /\ InitSession /\ InitFanout /\ InitMem /\ InitHttp
    /\ InitBridge /\ InitLife /\ InitClient /\ InitRest
    /\ kinds = [s \in Sides |-> "stdio"]
    /\ \/ apiKey = "k" /\ hkey \in [Calls -> Headers]
       \/ apiKey = NoKey /\ hkey = [c \in Calls |-> IF c = 1 THEN NoKey ELSE "x"]
    /\ pc = [c \in Calls |-> "http"]
    /\ hasStore = FALSE
    /\ stateless = FALSE
    /\ sess = "none"
    /\ tstate = "none"

NextAuth ==
    \/ \E c \in Calls, kind \in {"post", "delete", "sse"} : HttpUnauthorized(c, kind)
    \/ NextServer

SpecAuth == InitAuth /\ [][NextAuth]_vars

\* The life of a registered session: requests and DELETEs that carry its id,
\* the transport's reader, the child's exit.
NextRegistered ==
    \/ \E c \in Calls, sid \in Sids, b \in HttpBodies : HttpPost(c, sid, b)
    \/ \E c \in Calls, sid \in Sids : HttpDelete(c, sid)
    \/ \E c \in Calls : HttpReply(c)
    \/ \E c \in Calls : SessClose(c)
    \/ \E by \in Calls \cup {Waiter} : TransportCloseBegin(by)
    \/ TransportCloseHook
    \/ \E c \in Calls : TransportCloseAgain(c)
    \/ \E c \in Calls, p \in HttpBodies : ReqBegin(c, p)
    \/ \E c \in Calls : ReqSend(c)
    \/ \E c \in Calls : ReqSendFailed(c)
    \/ \E c \in Calls : ReqRecv(c)
    \/ \E c \in Calls : ReqCtxDone(c)
    \/ \E c \in Calls : ReqSettle(c)
    \/ \E b \in InboundBodies : HandleBegin(b)
    \/ HandleDeliver
    \/ HandleStore
    \/ HandleBroadcast

SpecRegistered == InitRegistered /\ [][NextRegistered]_vars

\* An event store with its storers and one replayer.
NextStore ==
    \/ \E streamID \in Streams : MemStore(streamID)
    \/ MemTick
    \/ \E id \in ReplayIds : ReplayBegin(id)
    \/ ReplayLookup
    \/ ReplayVisit
    \/ ReplayReturn

SpecStore == Init /\ [][NextStore]_vars

\* The HTTP server in stateless mode.
SpecStateless == InitStateless /\ [][NextServer]_vars

\* A bridge between two started transports: each side's reader hands it
\* messages, each side may report an error.
NextBridge ==
    \/ \E side \in Sides, m \in BridgeInputs : BridgeForward(side, m)
    \/ \E side \in Sides, e \in ErrTexts : BridgeOnError(side, e)

SpecBridge == InitServer /\ [][NextBridge]_vars

\* A stdio client: Start and Close calls, its children exiting.
NextClient ==
    \/ \E ok \in BOOLEAN : ClientStartLocked(ok)
    \/ \E ok \in BOOLEAN : ClientStartExec(ok)
    \/ ClientClose
    \/ \E k \in StartCalls : ClientChildExit(k)
    \/ \E k \in StartCalls : ClientWaiterClose(k)

SpecClient == InitServer /\ [][NextClient]_vars

\* A filter over any input, read with any buffer sizes from a source that
\* hands the input out in any pieces.
InitFilterSpec ==
    /\ InitSession /\ InitFanout /\ InitMem /\ InitHttp
    /\ InitBridge /\ InitLife /\ InitNoAuth /\ InitClient
    /\ kinds = [s \in Sides |-> "stdio"]
    /\ \E input \in BytesUpTo(MaxInputLen) : InitFilter(input)
    /\ InitMessage(<<>>)
    /\ pc = [c \in Calls |-> "http"]
    /\ hasStore = FALSE
    /\ stateless = FALSE
    /\ sess = "none"
    /\ tstate = "none"

NextFilter ==
    \E plen \in 1..MaxBuf, n \in 0..MaxBuf, eof \in BOOLEAN : FilterRead(plen, n, eof)

SpecFilter == InitFilterSpec /\ [][NextFilter]_vars

\* A Message made of any bytes; its holder calls Bytes, marshals it,
\* unmarshals the same bytes, and writes into the slices it holds.
InitMessageSpec ==
    /\ InitSession /\ InitFanout /\ InitMem /\ InitHttp
    /\ InitBridge /\ InitLife /\ InitNoAuth /\ InitClient
    /\ kinds = [s \in Sides |-> "stdio"]
    /\ InitFilter(<<>>)
    /\ \E b \in MsgInputs : InitMessage(b)
    /\ pc = [c \in Calls |-> "http"]
    /\ hasStore = FALSE
    /\ stateless = FALSE
    /\ sess = "none"
    /\ tstate = "none"

NextMessage ==
    \/ MsgBytesCall
    \/ \E name \in Slices, i \in 1..MaxMsgLen, c \in MsgBytes : MsgMutate(name, i, c)
    \/ MsgMarshal
    \/ MsgUnmarshal

SpecMessage == InitMessageSpec /\ [][NextMessage]_vars

\* A bridge over any two transports, from construction.
InitBridgeLife ==
    /\ InitSession /\ InitFanout /\ InitMem /\ InitHttp
    /\ InitBridge /\ InitLife /\ InitNoAuth /\ InitClient /\ InitRest
    /\ kinds \in [Sides -> Kinds]
    /\ pc = [c \in Calls |-> "http"]
    /\ hasStore = FALSE
    /\ stateless = FALSE
    /\ sess = "none"
    /\ tstate = "none"

\* Its caller starts and closes it, children exit, Close calls proceed.
NextBridgeLife ==
    \/ BridgeStart
    \/ \E ok \in BOOLEAN : BridgeStartLeft(ok)
    \/ \E ok \in BOOLEAN : BridgeStartRight(ok)
    \/ BridgeStartFailed
    \/ BridgeClose
    \/ BridgeCloseRight
    \/ BridgeCloseReturn
    \/ \E side \in Sides : TrProcessExit(side)
    \/ \E t \in Threads : TrCloseEnter(t)
    \/ \E t \in Threads : TrCloseReturn(t)
    \/ \E t \in Threads : TrCloseSkip(t)
    \/ \E t \in Threads : TrMockClose(t)

SpecBridgeLife == InitBridgeLife /\ [][NextBridgeLife]_vars

\* Every goroutine of the server that can take a step eventually takes it.
\* Nothing is assumed of the clients (arrivals, cancellations, closing an
\* SSE stream), of the child (its output, its exit) or of the tickers.
ServerProgress ==
    /\ \A c \in Calls : WF_vars(CsNew(c)) /\ WF_vars(CsStart(c))
                        /\ WF_vars(CsRegister(c)) /\ WF_vars(HttpReply(c))
                        /\ WF_vars(SessClose(c))
                        /\ WF_vars(TransportCloseBegin(c))
                        /\ WF_vars(TransportCloseAgain(c))
                        /\ WF_vars(\E p \in HttpBodies : ReqBegin(c, p))
                        /\ WF_vars(ReqSend(c)) /\ WF_vars(ReqSendFailed(c))
                        /\ WF_vars(ReqRecv(c))
                        /\ WF_vars(ReqSettle(c))
    /\ WF_vars(TransportCloseHook)
    /\ WF_vars(HandleDeliver) /\ WF_vars(HandleStore) /\ WF_vars(HandleBroadcast)

SpecServerFair == SpecServer /\ ServerProgress

----------------------------------------------------------------------------
(* Properties of the request/response correlator *)

NoPending == [k \in RawIds |-> NoChan]

\* The payloads of the inbound messages found in a log of events, in order.
InboundOf(log) == SelectSeq(log, LAMBDA e : e.payload.kind = "in")

\* Events 1..n of the inbound messages, as payloads.
InboundUpTo(n) == [i \in 1..n |-> Payload("in", i)]

PayloadsOf(log) == [i \in 1..Len(log) |-> log[i].payload]

\* C1: a request call whose payload has an id ends with a response carrying
\* exactly that id, with cancellation, or with the send error; once no call is
\* in flight the pending map is empty.
C1_RequestOutcome ==
    /\ \A c \in Calls :
          (pc[c] = "done" /\ HasID(payload[c])) =>
             /\ outcome[c].kind \in {"response", "cancelled", "senderr"}
             /\ outcome[c].kind = "response" =>
                    /\ HasID(outcome[c].body)
                    /\ outcome[c].body.id = payload[c].id
    /\ (\A c \in Calls : ~Active(c)) => pending = NoPending

\* Two concurrent calls with different ids each returned the response with
\* its own id.
C1_Witness ==
    /\ \A c \in {1, 2} : pc[c] = "done" /\ outcome[c].kind = "response"
    /\ payload[1].id # payload[2].id

\* C2: while a request call is registered and has not settled, the pending
\* entry of its id is the channel this very call registered: no other call
\* replaces or removes it, also when two calls carry the same id.
C2_EntryOwnedUntilSettled ==
    \A c \in Calls :
        (pc[c] \in {"send", "wait"} /\ HasID(payload[c])) =>
            PendingLoad(pending, payload[c].id) = c

\* C3: the inbound handler never blocks: it is never waiting to put a
\* response into a full channel whose request has already returned (a wait
\* that nothing can end).
C3_HandlerNeverBlocks ==
    ~(hpc = "deliver" /\ Len(chan[hch]) >= ChanCap /\ pc[hch] = "done")

IsNotification(p) == p.ok /\ p.id = NoId

\* C5: no step of a request call whose payload has no id changes the pending
\* map or any channel, the call never waits for an inbound message, it writes
\* its payload to the transport once and returns no body; the HTTP layer
\* then answers 204.
C5_Notification ==
    [][ \A c \in Calls :
          (pc'[c] # pc[c] /\ IsNotification(payload'[c])) =>
              /\ pending' = pending
              /\ chan' = chan
              /\ pc'[c] \in {"send", "done"}
              /\ pc'[c] = "done" =>
                    /\ outcome'[c].body = NilBody
                    /\ outcome'[c].kind \in {"none", "senderr"}
                    /\ outcome'[c].kind = "none" =>
                          /\ nsent'[c] = 1
                          /\ HandleStreamStatus(outcome'[c]) = 204
      ]_vars

\* A notification has returned while another request is still registered.
C5_Witness ==
    \E c, d \in Calls :
        /\ pc[c] = "done" /\ IsNotification(payload[c])
        /\ outcome[c].kind = "none" /\ nsent[c] = 1
        /\ pc[d] = "wait" /\ PendingLoad(pending, payload[d].id) = d

\* The reader is inside handleMessage and nothing can let it continue.
HandlerStuck ==
    hpc = "deliver" /\ Len(chan[hch]) >= ChanCap /\ pc[hch] = "done"

\* C6: whenever the reader is at rest (handleMessage has returned, or can
\* never continue), every message the transport delivered has been appended
\* to the store (if any) once and broadcast once, in delivery order.
C6_EveryInboundStoredAndBroadcast ==
    (hpc = "idle" \/ HandlerStuck) =>
        /\ PayloadsOf(bcasts) = InboundUpTo(ndelivered)
        /\ hasStore => PayloadsOf(stored) = InboundUpTo(ndelivered)

----------------------------------------------------------------------------
(* Properties of the fan-out *)

\* C7: a subscriber whose channel never filled is sent the stored events in
\* the order of the store: each stored event sent to it comes later in the
\* store than the stored event sent to it before.
C7_SubscriberSeesStoreOrder ==
    [][\A s \in Subs :
          (~dropped'[s] /\ lastSent'[s] # lastSent[s]) => lastSent'[s] > lastSent[s]]_vars

\* The event of the broadcast that this step performs.
LastBroadcast == bcasts[Len(bcasts)]

\* C8: a broadcast can always run to its end; it appends the event to the
\* channel of every subscribed channel with room, leaves a full channel as it
\* is, and leaves the channel of a subscriber that never subscribed or has
\* unsubscribed as it is.
C8_BroadcastNeverBlocks ==
    /\ [](hpc = "bcast" => ENABLED HandleBroadcast)
    /\ [](hbpc = "bcast" => ENABLED HbBroadcast)
    /\ [][bcasts' # bcasts =>
            \A s \in Subs :
                subch'[s] = IF subst[s] = "on" /\ Len(subch[s]) < SubCap
                              THEN Append(subch[s], bcasts'[Len(bcasts')])
                              ELSE subch[s]]_vars

\* An inbound message was broadcast and handleMessage returned: one
\* subscriber was full and missed it, the other has it.
C8_Witness ==
    \E s, t \in Subs :
        /\ s # t /\ hpc = "idle" /\ ndelivered > 0
        /\ bcasts # <<>> /\ LastBroadcast.payload = Payload("in", ndelivered)
        /\ subst[s] = "on" /\ dropped[s] /\ Len(subch[s]) = SubCap
        /\ LastBroadcast \notin {subch[s][i] : i \in 1..Len(subch[s])}
        /\ subst[t] = "on" /\ subch[t] = <<LastBroadcast>>

----------------------------------------------------------------------------
(* Properties of the HTTP server *)

\* C9: once an SSE stream is open with the id of a registered session,
\* each message the session's transport delivers afterwards is eventually
\* written to the stream as a data: line, unless the stream ends.
C9_SseDeliversSessionMessages ==
    \A c \in Calls : \A n \in 1..MaxInbound :
        [] ((pc[c] = "sse" /\ sseKnown[c] /\ sseSince[c] < n /\ ndelivered >= n)
              => <> (\/ pc[c] # "sse"
                     \/ \E i \in 1..Len(sseOut[c]) :
                           sseOut[c][i] = SseLine("data", Payload("in", n))))

\* C10: once the session's transport has closed, or a DELETE for the session
\* has been answered 204, the registry holds no entry for the session id.
C10_NoEntryAfterClose ==
    (\/ tstate = "closed"
     \/ \E c \in Calls : hkind[c] = "delete" /\ hsid[c] = TheSid /\ status[c] = 204)
        => TheSid \notin sessions

\* C11: in stateful mode a POST without a session id whose body is not an
\* initialize request of version 2.0 is answered 400 and creates no session
\* and no transport; a POST whose session id is not registered when it
\* arrives is answered 404, creates nothing and sends nothing; an answered
\* handler does nothing more.
C11_SessionOnlyByInitialize ==
    /\ [](\A c \in Calls :
            (/\ ~stateless /\ hkind[c] = "post" /\ hsid[c] = NoSid
             /\ ~(payload[c].ok /\ payload[c].method = "initialize"
                               /\ payload[c].jsonrpc = "2.0"))
               => /\ status[c] = 400 /\ pc[c] = "replied"
                  /\ creator # c /\ nsent[c] = 0)
    /\ [](\A c \in Calls :
            (hkind[c] = "post" /\ hsid[c] = OtherSid)
               => status[c] = 404 /\ pc[c] = "replied" /\ creator # c /\ nsent[c] = 0)
    /\ [][\A c \in Calls :
            (/\ hkind[c] = "none" /\ hkind'[c] = "post"
             /\ hsid'[c] # NoSid /\ hsid'[c] \notin sessions)
               => /\ status'[c] = 404 /\ pc'[c] = "replied"
                  /\ sess' = sess /\ tstate' = tstate /\ creator' = creator
                  /\ sessions' = sessions /\ nsent' = nsent]_vars
    /\ [][\A c \in Calls :
            pc[c] = "replied"
               => pc'[c] = "replied" /\ status'[c] = status[c] /\ nsent'[c] = nsent[c]]_vars

\* An initialize of version 1.0 without a session id was refused with 400
\* while another handler's initialize created and registered the session.
C11_Witness ==
    \E c, d \in Calls :
        /\ ~stateless /\ hkind[c] = "post" /\ hsid[c] = NoSid
        /\ payload[c] = BodyOf(TRUE, "1", "initialize", "1.0")
        /\ status[c] = 400
        /\ creator = d /\ TheSid \in sessions /\ IsInitializeRequest(payload[d])

\* C12: in stateless mode, once the handler of a POST that started a
\* transport has returned, that transport is closed.
C12_StatelessTransportClosed ==
    \A c \in Calls :
        (/\ stateless /\ hkind[c] = "post" /\ pc[c] = "replied"
         /\ creator = c /\ tstate # "new")
           => tstate = "closed"

\* C13: in stateless mode the registry stays empty, the session has no event
\* store, no response carries an mcp-session-id header, and a POST without a
\* session id is never refused for lacking one.
C13_StatelessKeepsNothing ==
    stateless =>
        /\ sessions = {}
        /\ ~hasStore
        /\ \A c \in Calls :
              /\ ~respSid[c]
              /\ (hkind[c] = "post" /\ hsid[c] = NoSid) => status[c] \notin {400, 404}

\* A POST without session id that is no initialize request was served with
\* 200 by a transport made for it.
C13_Witness ==
    \E c \in Calls :
        /\ stateless /\ hkind[c] = "post" /\ hsid[c] = NoSid
        /\ ~IsInitializeRequest(payload[c])
        /\ creator = c /\ nconnect = 1 /\ status[c] = 200 /\ pc[c] = "replied"

----------------------------------------------------------------------------
(* Properties of closing *)

\* session.close has cancelled the context and passed closeOnce.Do.
InsideClose(c) == pc[c] \in {"tclose", "thook"}

\* A DELETE whose session.close has returned.
CloseReturned(c) == hkind[c] = "delete" /\ status[c] = 204

\* C14: the session's on-close hook has run at most once; once any close()
\* is past its closeOnce.Do, or the transport's close callback has run, it
\* has run exactly once and the context is cancelled; once a close() has
\* returned the transport is closed.
C14_OnCloseHookOnce ==
    /\ nfinal <= 1
    /\ (nfinal = 1) = closeOnce
    /\ \A c \in Calls :
          /\ (InsideClose(c) \/ CloseReturned(c)) => nfinal = 1 /\ sctxDone
          /\ CloseReturned(c) => tstate = "closed"
    /\ tstate = "closed" => nfinal = 1 /\ sctxDone

\* Two DELETEs of the session have both returned, one of them having closed
\* the transport, and the hook ran once.
C14_Witness ==
    \E c, d \in Calls :
        /\ c # d /\ CloseReturned(c) /\ CloseReturned(d)
        /\ tcloser = c /\ nfinal = 1

\* C15: the transport's OnClose observer fires at most once, and has fired
\* exactly when the transport is closed; once a closer is inside the
\* close-once guard no other closer enters it, and a close of a closed
\* transport fires nothing.
C15_TransportCloseOnce ==
    /\ [](nonclose <= 1 /\ ((nonclose = 1) = (tstate = "closed")))
    /\ [][tstate = "closing" =>
            /\ tcloser' = tcloser
            /\ \/ tstate' = "closing" /\ nonclose' = nonclose
               \/ tstate' = "closed" /\ nonclose' = nonclose + 1]_vars
    /\ [][tstate = "closed" => tstate' = "closed" /\ nonclose' = nonclose]_vars
    /\ [][nonclose' # nonclose => tstate = "closing" /\ tstate' = "closed"]_vars

\* The waiter closed the transport after the child's exit, and a DELETE's
\* Close that came later has returned.
C15_Witness ==
    \E c \in Calls :
        CloseReturned(c) /\ tcloser = Waiter /\ nonclose = 1 /\ tstate = "closed"

\* C16: after the transport's OnClose observer has fired, the reader hands
\* no further message to OnMessage.
C16_NoMessageAfterClose ==
    [][nonclose >= 1 => ndelivered' = ndelivered]_vars

----------------------------------------------------------------------------
(* Properties of the event store *)

\* The store holds an event of this id.
Known(id) == \E i \in 1..Len(mevents) : mevents[i].ID = id

\* The events of the stream of the event named id that were stored after it,
\* in the order they were stored.
StoredAfter(id) ==
    LET i == CHOOSE k \in 1..Len(mevents) : mevents[k].ID = id
        SameStream(e) == e.StreamID = mevents[i].StreamID
    IN  SelectSeq(SubSeq(mevents, i + 1, Len(mevents)), SameStream)

StreamOfId(id) ==
    (CHOOSE e \in EventsOf(mevents) : e.ID = id).StreamID

\* C17: a replay after the id of a stored event returns that event's stream
\* id and has handed to the visitor exactly the events of that stream stored
\* after it, once each, in the order they were stored.
C17_ReplayVisitsLaterEventsInOrder ==
    (rpc = "returned" /\ Known(rid)) =>
        /\ rret = StreamOfId(rid)
        /\ rvisited = StoredAfter(rid)

\* C18: a replay after an id the store never returned hands nothing to the
\* visitor, returns the empty string and leaves the store as it was.
C18_UnknownIdReplaysNothing ==
    /\ []((rpc = "returned" /\ ~Known(rid)) =>
            rvisited = <<>> /\ rret = EmptyString)
    /\ [][(RLockHeld /\ ~Known(rid)) => mevents' = mevents]_vars

\* A replay after an unknown id that begins with the stream id of stored
\* events has returned.
C18_Witness ==
    /\ rpc = "returned" /\ ~Known(rid) /\ rret = EmptyString
    /\ Len(mevents) >= 2
    /\ \E e \in EventsOf(mevents) : IsPrefix(e.StreamID, rid)

\* C19: the ids of the stored events are pairwise distinct, each begins with
\* the stream id it was stored under, and a replay hands to the visitor only
\* events of the stream of the event it was asked about.
C19_IdsDistinctAndStreamsIsolated ==
    /\ \A i, j \in 1..Len(mevents) : i # j => mevents[i].ID # mevents[j].ID
    /\ \A i \in 1..Len(mevents) : IsPrefix(mevents[i].StreamID, mevents[i].ID)
    /\ \A k \in 1..Len(rvisited) :
          Known(rid) /\ rvisited[k].StreamID = StreamOfId(rid)

\* A replay has visited an event although an event of another stream was
\* stored after the event asked about.
C19_Witness ==
    /\ rpc = "returned" /\ Known(rid) /\ rvisited # <<>>
    /\ \E i, j \in 1..Len(mevents) :
          /\ i < j /\ mevents[i].ID = rid
          /\ mevents[j].StreamID # mevents[i].StreamID

\* C20: while a replay is in progress a store can be done.
C20_ReplayNeverBlocksStore ==
    (RLockHeld /\ Len(mevents) < MaxEvents) => ENABLED MemStoreAny

----------------------------------------------------------------------------
(* The bridge's id namespacing *)

\* The message the step handed to Send of transport `to`, if it is the only
\* one the step sent anywhere.
SentOnly(to, m) ==
    /\ sent'[to] = Append(sent[to], m)
    /\ sent'[Other(to)] = sent[Other(to)]

\* C21: a request (method and id present) entering one side leaves the other
\* side with its id replaced by the JSON string "proxy-<n>", n not used
\* before in that direction, and every other field unchanged; a response
\* whose id is the proxy id of an outstanding request of the opposite
\* direction leaves with that request's original raw id, byte for byte.
C21_RequestIdNamespacedAndRestored ==
    [][nfwd' = nfwd + 1 =>
        LET from == bin'.from
            to == Other(from)
            m == bin'.msg
        IN  /\ (m.ok /\ m.id # NoTok /\ m.method # NoMethod) =>
                   \E n \in ProxyNums :
                       /\ assigned[from][n] = NoTok
                       /\ SentOnly(to, [m EXCEPT !.id = StrQuote(ProxyID(n))])
            /\ (m.ok /\ m.method = NoMethod /\ IsStringToken(m.id)) =>
                   \A n \in ProxyNums :
                       (ProxyID(n) = StringOf(m.id) /\ idMap[to][n] # NoTok) =>
                           SentOnly(to, [m EXCEPT !.id = assigned[to][n]])
    ]_vars

\* Two raw tokens that encoding/json writes the same way.
SameJson(a, b) == Compact(a) = Compact(b)

\* C22: a response entering side `from` with the proxy id of a request that
\* is outstanding in the direction towards `from` is delivered to the side
\* that issued that request, with that request's original id, and the other
\* direction's entry for the same proxy id stays as it was.
C22_NoCrossTalk ==
    [][nfwd' = nfwd + 1 =>
        LET from == bin'.from
            to == Other(from)
            m == bin'.msg
        IN  (m.ok /\ m.method = NoMethod /\ IsStringToken(m.id)) =>
                \A n \in ProxyNums :
                    (ProxyID(n) = StringOf(m.id) /\ idMap[to][n] # NoTok) =>
                        /\ sent'[from] = sent[from]
                        /\ Len(sent'[to]) = Len(sent[to]) + 1
                        /\ SubSeq(sent'[to], 1, Len(sent[to])) = sent[to]
                        /\ LET out == sent'[to][Len(sent'[to])]
                           IN  /\ SameJson(out.id, assigned[to][n])
                               /\ [out EXCEPT !.id = m.id] = m
                        /\ idMap'[to][n] = NoTok
                        /\ idMap'[from] = idMap[from]
    ]_vars

\* Both directions gave out proxy-1 for different original ids; the request
\* that came in on the left has been answered (the answer went to the left),
\* the one that came in on the right is still outstanding.
C22_Witness ==
    /\ assigned["left"][1] # NoTok
    /\ assigned["right"][1] # NoTok
    /\ ~SameJson(assigned["left"][1], assigned["right"][1])
    /\ idMap["left"][1] = NoTok
    /\ idMap["right"][1] # NoTok
    /\ bin.kind = "message" /\ bin.from = "right"
    /\ bin.msg.id = StrQuote(ProxyID(1)) /\ bin.msg.method = NoMethod
    /\ Len(sent["left"]) > 0
    /\ SameJson(sent["left"][Len(sent["left"])].id, assigned["left"][1])

\* C23: a message that is not a JSON object, or is one without an "id", is
\* handed to the opposite side's Send exactly once, unchanged, and the step
\* changes no id map and no counter.
C23_VerbatimWithoutId ==
    [][nfwd' = nfwd + 1 =>
        LET from == bin'.from
            m == bin'.msg
        IN  (~m.ok \/ m.id = NoTok) =>
                /\ SentOnly(Other(from), m)
                /\ idMap' = idMap
                /\ seqs' = seqs
    ]_vars

\* A notification has just been forwarded while a request is outstanding,
\* and a line that is no JSON object went through before it.
C23_Witness ==
    /\ bin.kind = "message"
    /\ bin.msg.ok /\ bin.msg.id = NoTok /\ bin.msg.method # NoMethod
    /\ Len(sent[Other(bin.from)]) > 0
    /\ sent[Other(bin.from)][Len(sent[Other(bin.from)])] = bin.msg
    /\ \E s \in Sides, n \in ProxyNums : idMap[s][n] # NoTok
    /\ \E s \in Sides : \E i \in 1..Len(sent[s]) : ~sent[s][i].ok

\* C26: an error reported by transport X makes the bridge send exactly one
\* message, to the other transport: a notification (no id) with method
\* "proxy/error" whose params carry source X and the error's text.
C26_ErrorBecomesNotification ==
    [][nberr' = nberr + 1 =>
        \E m \in {BMsg(TRUE, NoTok, "proxy/error",
                       [source |-> bin'.from, error |-> bin'.err])} :
            SentOnly(Other(bin'.from), m)
    ]_vars

----------------------------------------------------------------------------
(* The bridge's close cascade and start *)

\* The goroutine t waits for: the runner of the once guard its innermost
\* Close call is held at, NoThread if it can take a step.
WaitsOn(t) ==
    IF /\ t \in Threads
       /\ stack[t] # <<>>
       /\ Top(t).at = "call"
       /\ kinds[Top(t).side] = "stdio"
       /\ closedOnce[Top(t).side] = "running"
    THEN onceHolder[Top(t).side]
    ELSE NoThread

\* Following who waits for whom from t for k steps never reaches a goroutine
\* that can move.
RECURSIVE WaitChain(_, _)
WaitChain(t, k) ==
    IF WaitsOn(t) = NoThread THEN FALSE
    ELSE IF k = 0 THEN TRUE
    ELSE WaitChain(WaitsOn(t), k - 1)

\* t is inside a Close call that can never return: the chain of waits from
\* it closes on itself.
BlockedForever(t) == WaitChain(t, Cardinality(Threads))

\* No Close call is in progress anywhere.
Quiescent == \A t \in Threads : stack[t] = <<>>

\* C24: once any Close call on the bridge or on either transport has begun,
\* no Close call waits forever (on a guard held by its own goroutine or
\* round a cycle of goroutines), no OnClose hook runs twice, and when the
\* calls have all returned both hooks have run exactly once.
C24_CloseCascadeTerminates ==
    /\ \A t \in Threads : ~BlockedForever(t)
    /\ \A s \in Sides : onCloseFired[s] <= 1
    /\ (Quiescent /\ \E s \in Sides : onCloseFired[s] > 0) =>
           \A s \in Sides : onCloseFired[s] = 1 /\ closedOnce[s] = "done"

\* C25: Bridge.Start starts each transport at most once and the right one
\* only after the left one started; if the left fails the right is never
\* started and Start returns the left's error; if the right fails, Start
\* closes the left and returns the right's error (it is not held forever
\* inside that Close).
C25_StartOrderAndErrors ==
    /\ \A s \in Sides : nstart[s] <= 1
    /\ nstart["right"] > 0 => trun["left"] \in {"started", "exited"}
    /\ trun["left"] = "failed" => (nstart["right"] = 0 /\ startRet = "errLeft")
    /\ trun["right"] = "failed" =>
           \/ startRet = "errRight" /\ closedOnce["left"] = "done"
           \/ bpc = "failClose" /\ startRet = "none" /\ ~BlockedForever(Caller)

----------------------------------------------------------------------------
(* API-key authentication *)

\* The handler's request fails the check of the configured key.
Rejected(c) == apiKey # NoKey /\ hkey[c] # apiKey

\* What a handler can change beyond its own response: the registry, the
\* session and its transport, what was sent, the SSE responses.
Effects ==
    <<sessions, sess, tstate, tcloser, sctxDone, closeOnce, nfinal, nconnect,
      creator, norphan, nonclose, nsent, payload, pending, sseOut, respSid>>

\* C27: with an API key configured, a request whose X-API-Key header is
\* missing or different gets status 401 and does nothing else: its handler
\* never creates or closes a session, sends nothing to a transport, opens
\* no SSE stream, and the step that answers it changes nothing but its own
\* response. With no key configured no request is answered 401.
C27_UnauthorizedHasNoEffect ==
    /\ [](\A c \in Calls :
            /\ Rejected(c) =>
                   /\ pc[c] \in {"http", "replied"}
                   /\ status[c] \in {0, 401}
                   /\ pc[c] = "replied" => status[c] = 401
                   /\ creator # c
                   /\ nsent[c] = 0
                   /\ payload[c] = NilBody
                   /\ sseOut[c] = <<>>
                   /\ ~respSid[c]
            /\ ~Rejected(c) => status[c] # 401)
    /\ [][\A c \in Calls :
            (Rejected(c) /\ pc'[c] # pc[c]) => Effects' = Effects]_vars

\* A request with a wrong key was answered 401 after another handler, with
\* the right key, had created the session, which is still registered and
\* open; and a request without the header was answered 401 too.
C27_Witness ==
    /\ apiKey # NoKey
    /\ \E c, d \in Calls :
        /\ hkey[c] = "x" /\ status[c] = 401 /\ hkind[c] = "delete"
        /\ hkey[d] = apiKey /\ creator = d
        /\ sessions = {TheSid} /\ tstate = "started" /\ ~closeOnce

----------------------------------------------------------------------------
(* The stdio client's single start *)

\* C28: over the client's lifetime at most one child is spawned, and every
\* Start call after the first returns "already started", whatever the first
\* returned and whether or not the client was closed in between.
C28_StartIsSingleShot ==
    /\ Cardinality({k \in StartCalls : child[k] # "none"}) <= 1
    /\ \A i \in 2..Len(cstarts) : cstarts[i] = "already started"

----------------------------------------------------------------------------
(* The filter's output *)

\* The lines of `rest` (after the unfinished line `cur`), each emitted or
\* not on its own: a line ends at a line feed or at the end of the input.
RECURSIVE JsonLines(_, _)
JsonLines(rest, cur) ==
    IF rest = <<>> THEN Emit(cur)
    ELSE IF Head(rest) = LF THEN Emit(cur) \o JsonLines(Tail(rest), <<>>)
    ELSE JsonLines(Tail(rest), Append(cur, Head(rest)))

IsPrefixOf(s, t) == Len(s) <= Len(t) /\ SubSeq(t, 1, Len(s)) = s

\* C29: however the source cuts the input into pieces and whatever buffer
\* sizes the reader is called with, what the filter has returned is a prefix
\* of, and at io.EOF equal to, the input's lines whose trimmed form begins
\* with '{', in order, each written once in that trimmed form followed by
\* one line feed (the unterminated tail included); blank and other lines
\* contribute nothing.
C29_FilterOutput ==
    /\ IsPrefixOf(fout, JsonLines(finput, <<>>))
    /\ feof => fout = JsonLines(finput, <<>>)

\* The input " {", line feed, "{" was handed out in pieces and read to
\* io.EOF: the first line came out trimmed, the tail with a line feed added.
C29_Witness ==
    /\ finput = <<" ", "{", LF, "{">>
    /\ fsplit
    /\ feof
    /\ fout = <<"{", LF, "{", LF>>

----------------------------------------------------------------------------
(* The Message's bytes *)

\* C30: for the bytes b a Message was made of: every Bytes call returns b,
\* whatever was written meanwhile into the slice given to NewMessage or into
\* a slice an earlier Bytes call returned; json.Marshal of the Message
\* yields b; json.Unmarshal of b yields a Message whose bytes are b.
C30_MessageRoundTrip ==
    /\ heap[cellOf["raw"]] = minput
    /\ mgot = minput
    /\ marshaled # NotCalled => marshaled = Ok(minput)
    /\ unmarshaled # NotCalled =>
           (unmarshaled.ok /\ heap[cellOf["uraw"]] = minput)

----------------------------------------------------------------------------
(* Requests in flight when the transport closes *)

\* C31: a request that is waiting for its response when the session's
\* transport has closed (the OnClose hook has run) eventually stops waiting,
\* by the server's own steps: nothing is assumed of the caller's context.
C31_CloseEndsInFlightRequests ==
    \A c \in Calls : (tstate = "closed" /\ pc[c] = "wait") ~> (pc[c] # "wait")

----------------------------------------------------------------------------
(* Registration before send *)

\* Call c has registered its id and has not yet seen a response or given up:
\* its payload is with the transport (Send running or returned).
InFlight(c) == HasID(payload[c]) /\ pc[c] \in {"send", "wait"}

\* No other call uses the id of call c.
Alone(c) ==
    \A d \in Calls \ {c} : payload[d] = NilBody \/ payload[d].id # payload[c].id

\* C32: from the moment Send is called the pending entry of the request's id
\* is the caller's channel, so a response the reader takes at any moment
\* after that, also before Send has returned, is put into that channel.
\* (Calls sharing one id disturb each other in another way and are left
\* out here.)
C32_RegisteredBeforeSend ==
    /\ [](\A c \in Calls :
            (InFlight(c) /\ Alone(c)) => pending[payload[c].id] = c)
    /\ [][\A c \in Calls :
            (/\ InFlight(c) /\ Alone(c)
             /\ ndelivered' = ndelivered + 1
             /\ HasID(hmsg') /\ hmsg'.id = payload[c].id)
            => (hpc' = "deliver" /\ hch' = c)]_vars

\* The response is in the caller's channel while Send has not returned yet.
C32_Witness ==
    \E c \in Calls :
        /\ pc[c] = "send" /\ Alone(c)
        /\ chan[c] # <<>>
        /\ Head(chan[c]).id = payload[c].id

----------------------------------------------------------------------------
(* What is broadcast is stored *)

\* C33: with an event store, every event that was broadcast carries a
\* non-empty event id and was handed to the store under that id.
C33_BroadcastIsStored ==
    hasStore =>
        \A i \in 1..Len(bcasts) :
            /\ bcasts[i].id # 0
            /\ \E j \in 1..Len(stored) : stored[j] = bcasts[i]

----------------------------------------------------------------------------
(* Requests that fail before they wait *)

\* Call c has returned the error of a payload that is no JSON object or of a
\* failed Send.
FailedEarly(c) ==
    pc[c] = "done" /\ outcome[c].kind \in {"invalid", "senderr"}

\* C34: once request has returned such an error the pending map is what it
\* was before the call: no entry is the call's own, every request that was
\* registered before the call began and is still in flight is still
\* registered (unless a third call uses its id as well), and a payload that
\* did not parse was not sent.
C34_FailedRequestLeavesNoTrace ==
    \A c \in Calls :
        FailedEarly(c) =>
            /\ \A k \in RawIds : pending[k] # c
            /\ outcome[c].kind = "invalid" => nsent[c] = 0
            /\ \A d \in Calls :
                 (d < c /\ InFlight(d)) =>
                     \/ pending[payload[d].id] = d
                     \/ \E e \in Calls \ {c, d} : payload[e].id = payload[d].id

----------------------------------------------------------------------------
(* Raw id tokens as keys *)

\* C35: the reader hands a response to a channel only if the raw id token of
\* the response is the raw id token of the request that registered the
\* channel: the number 1 and the string "1" never match.  A response whose
\* token is that of no request in flight is matched to no channel and goes
\* on to the store and broadcast, and every caller stays where it is.
C35_RawTokenIsTheKey ==
    [][(ndelivered' = ndelivered + 1 /\ HasID(hmsg')) =>
          /\ hch' # NoChan => payload[hch'].id = hmsg'.id
          /\ (\A c \in Calls : Active(c) => payload[c].id # hmsg'.id) =>
                /\ hch' = NoChan /\ hpc' = "store"
                /\ pc' = pc /\ chan' = chan]_vars

\* A request waits under one token while the response with the other token
\* of the same value is on its way to the store.
C35_Witness ==
    \E c \in Calls :
        /\ pc[c] = "wait"
        /\ HasID(hmsg) /\ hmsg.id # payload[c].id
        /\ hpc = "store" /\ hch = NoChan

----------------------------------------------------------------------------
(* The heartbeat task and the life of its session *)

\* createSession, session.close and the transport's close together with the
\* run goroutine newSession started; no request is made on the session.
NextHeartbeat ==
    \/ \E c \in Calls, sid \in Sids, b \in HttpBodies : HttpPost(c, sid, b)
    \/ \E c \in Calls, sid \in Sids : HttpDelete(c, sid)
    \/ \E c \in Calls : CsNew(c)
    \/ \E c \in Calls : CsStart(c)
    \/ \E c \in Calls : CsRegister(c)
    \/ \E c \in Calls : SessClose(c)
    \/ \E by \in Calls \cup {Waiter} : TransportCloseBegin(by)
    \/ TransportCloseHook
    \/ \E c \in Calls : TransportCloseAgain(c)
    \/ HbTick
    \/ HbStore
    \/ HbBroadcast
    \/ HbExit

\* Every goroutine of the server that can take a step eventually takes it;
\* nothing is assumed of the clients, of the child or of the ticker.
HeartbeatProgress ==
    /\ \A c \in Calls : WF_vars(CsNew(c)) /\ WF_vars(CsStart(c))
                        /\ WF_vars(CsRegister(c)) /\ WF_vars(SessClose(c))
                        /\ WF_vars(TransportCloseBegin(c))
                        /\ WF_vars(TransportCloseAgain(c))
    /\ WF_vars(TransportCloseHook)
    /\ WF_vars(HbStore) /\ WF_vars(HbBroadcast) /\ WF_vars(HbExit)

SpecHeartbeat == InitServer /\ [][NextHeartbeat]_vars /\ HeartbeatProgress

\* createSession returned the error of sess.start.
StartFailed ==
    /\ creator # 0
    /\ tstate = "new"
    /\ pc[creator] = "replied" /\ status[creator] = 500

\* The session is over: closed, its transport closed, or never started.
SessionOver == sctxDone \/ tstate = "closed" \/ StartFailed

IsHeartbeat(e) == e.payload.kind = "hb"

\* C36: once the session is over its heartbeat task terminates, and a
\* terminated task has emitted its last heartbeat; without an event store no
\* heartbeat is ever stored or broadcast.
C36_HeartbeatEndsWithSession ==
    /\ SessionOver ~> (hbpc = "exited")
    /\ [][hbpc = "exited" => (stored' = stored /\ bcasts' = bcasts)]_vars
    /\ [](~hasStore =>
            /\ \A i \in 1..Len(stored) : ~IsHeartbeat(stored[i])
            /\ \A i \in 1..Len(bcasts) : ~IsHeartbeat(bcasts[i]))

----------------------------------------------------------------------------
(* The server's OnConnect and OnClose hooks *)

\* C37: the OnClose hook of the session's id has run at most once and only
\* if the OnConnect hook has run for that id; a session whose start failed
\* has run neither.
C37_HooksInOrder ==
    /\ nfinal <= 1
    /\ nfinal <= nconnect
    /\ StartFailed => (nfinal = 0 /\ nconnect = 0)

----------------------------------------------------------------------------
(* What Bridge.Start returns *)

\* C38: the Start call that returned last returned nil only if both
\* transports were started, and returned an error if the call that ran the
\* start-once body did.
C38_StartErrorIsSticky ==
    /\ lastRet = "nil" => \A s \in Sides : trun[s] \notin {"new", "failed"}
    /\ startRet \in {"errLeft", "errRight"} => lastRet # "nil"

----------------------------------------------------------------------------
(* The stdout reader of the stdio client *)

\* Client.Start has spawned the child and readStdout: the pipe is empty.
InitReaderSpec ==
    /\ InitSession /\ InitFanout /\ InitMem /\ InitHttp
    /\ InitBridge /\ InitLife /\ InitNoAuth /\ InitClient
    /\ kinds = [s \in Sides |-> "stdio"]
    /\ InitFilter(<<>>)
    /\ InitMessage(<<>>)
    /\ pc = [c \in Calls |-> "http"]
    /\ hasStore = FALSE
    /\ stateless = FALSE
    /\ sess = "none"
    /\ tstate = "none"

\* The child writing diagnostic and JSON lines, the reader reading the pipe
\* in any pieces.
NextReader ==
    \/ \E line \in DiagLines \cup JsonLineSet : ChildWrite(line)
    \/ ChildCloseStdout
    \/ \E n \in 0..MaxBuf, eof \in BOOLEAN : ReadStdout(n, eof)

SpecReader == InitReaderSpec /\ [][NextReader]_vars

\* The bytes of a sequence of lines.
RECURSIVE Flatten(_)
Flatten(lines) ==
    IF lines = <<>> THEN <<>> ELSE Head(lines) \o Flatten(Tail(lines))

\* C39: whatever diagnostic and empty lines the child writes between its
\* JSON lines, and however the pipe hands them out, the reader raises no
\* error (the child's output has none), what it has delivered are the first
\* JSON lines the child wrote, in order, and when it stops at the end of
\* stdout it has delivered them all.
C39_DiscardsNeverStopTheReader ==
    /\ rdstate # "error"
    /\ IsPrefixOf(fout, Flatten(cwrote))
    /\ rdstate = "eof" => fout = Flatten(cwrote)

----------------------------------------------------------------------------
(* An id mapping is used once *)

\* C40: the step that forwards a response with the original id restored
\* removes the mapping of its proxy id and no other; a response whose id is
\* no JSON string, or is a string with no mapping in the direction it
\* answers (never given out, or used by an earlier response), is forwarded
\* as it came and leaves maps and counters alone.
C40_MappingConsumedOnce ==
    [][nfwd' = nfwd + 1 =>
        LET from == bin'.from
            to == Other(from)
            m == bin'.msg
            Mapped(n) == /\ IsStringToken(m.id)
                         /\ ProxyID(n) = StringOf(m.id)
                         /\ idMap[to][n] # NoTok
        IN  (m.ok /\ m.method = NoMethod /\ m.id # NoTok) =>
                /\ \A n \in ProxyNums :
                      /\ Mapped(n) => idMap'[to][n] = NoTok
                      /\ ~Mapped(n) => idMap'[to][n] = idMap[to][n]
                /\ idMap'[from] = idMap[from]
                /\ (\A n \in ProxyNums : ~Mapped(n)) =>
                      /\ SentOnly(to, m)
                      /\ seqs' = seqs /\ assigned' = assigned
    ]_vars

\* A proxy id was given out and its mapping used up, and the last step
\* forwarded one more response carrying that proxy id, which left with the
\* proxy id still on it.
C40_Witness ==
    \E s \in Sides, n \in ProxyNums :
        /\ assigned[s][n] # NoTok
        /\ idMap[s][n] = NoTok
        /\ bin.kind = "message" /\ bin.from = Other(s)
        /\ bin.msg.method = NoMethod
        /\ bin.msg.id = StrQuote(ProxyID(n))
        /\ Len(sent[s]) >= 2
        /\ sent[s][Len(sent[s])] = bin.msg

====
